---------------------------- MODULE Spec2Model ----------------------------
(***************************************************************************)
(* Record normalization and entity-resolution pipeline of lead-sniper:    *)
(* helpers.py (clean_text, clean_inn, normalize_revenue), cleaner.py      *)
(* (DataCleaner), deduplicator.py (Deduplicator), validator.py            *)
(* (DataValidator) and main.py (main).                                    *)
(*                                                                         *)
(* Text is a sequence of characters.  A character is a TLA+ string: an    *)
(* ASCII character stands for itself, a Cyrillic letter is written        *)
(* "cyr_x" (lower case) or "CYR_X" (upper case) after its transliteration,*)
(* "endash" is U+2013, "TAB" and "NL" are the control characters and      *)
(* "ar_1" is U+0661, a decimal digit outside ASCII.                       *)
(***************************************************************************)
EXTENDS Integers, Sequences, FiniteSets, TLC

VARIABLES
  pc,         \* the position of the run
  companies,  \* main: the list of mappings that was loaded
  df,         \* main: the table the stages hand on
  prev,       \* the table the last stage received
  df_export,  \* main: the table written to OUTPUT_FILE
  arg,        \* the argument of a helper that is called on its own
  ret         \* its result

vars == <<pc, companies, df, prev, df_export, arg, ret>>

-----------------------------------------------------------------------------
(* Characters and the str methods the code uses.                           *)

AsciiDigits == <<"0", "1", "2", "3", "4", "5", "6", "7", "8", "9">>

\* Python 3 \d and \D on str patterns are Unicode aware: "ar_1" is a digit.
IsDigit(c) == c \in {AsciiDigits[i] : i \in 1..10} \cup {"ar_1"}

\* str.split() and str.strip() without argument: Unicode white space.
IsSpace(c) == c \in {" ", "TAB", "NL"}

UpperChars ==
  <<"A", "B", "C", "D", "E", "F", "G", "H", "I", "J", "K", "L", "M", "N",
    "O", "P", "Q", "R", "S", "T", "U", "V", "W", "X", "Y", "Z", "CYR_A",
    "CYR_B", "CYR_V", "CYR_G", "CYR_D", "CYR_E", "CYR_ZH", "CYR_Z", "CYR_I",
    "CYR_J", "CYR_K", "CYR_L", "CYR_M", "CYR_N", "CYR_O", "CYR_P", "CYR_R",
    "CYR_S", "CYR_T", "CYR_U", "CYR_F", "CYR_H", "CYR_C", "CYR_CH", "CYR_SH",
    "CYR_SHCH", "CYR_HARD", "CYR_Y", "CYR_SOFT", "CYR_EH", "CYR_YU", "CYR_YA">>

LowerChars ==
  <<"a", "b", "c", "d", "e", "f", "g", "h", "i", "j", "k", "l", "m", "n",
    "o", "p", "q", "r", "s", "t", "u", "v", "w", "x", "y", "z", "cyr_a",
    "cyr_b", "cyr_v", "cyr_g", "cyr_d", "cyr_e", "cyr_zh", "cyr_z", "cyr_i",
    "cyr_j", "cyr_k", "cyr_l", "cyr_m", "cyr_n", "cyr_o", "cyr_p", "cyr_r",
    "cyr_s", "cyr_t", "cyr_u", "cyr_f", "cyr_h", "cyr_c", "cyr_ch", "cyr_sh",
    "cyr_shch", "cyr_hard", "cyr_y", "cyr_soft", "cyr_eh", "cyr_yu", "cyr_ya">>

\* str.lower() on one character.
LowerChar(c) ==
  IF \E i \in 1..Len(UpperChars) : UpperChars[i] = c
  THEN LowerChars[CHOOSE i \in 1..Len(UpperChars) : UpperChars[i] = c]
  ELSE c

\* str.lower()
Lower(s) == [i \in 1..Len(s) |-> LowerChar(s[i])]

\* str.strip(): leading and trailing white space removed.
RECURSIVE LStrip(_)
LStrip(s) == IF s /= <<>> /\ IsSpace(Head(s)) THEN LStrip(Tail(s)) ELSE s

RECURSIVE RStrip(_)
RStrip(s) ==
  IF s /= <<>> /\ IsSpace(s[Len(s)]) THEN RStrip(SubSeq(s, 1, Len(s) - 1)) ELSE s

Strip(s) == RStrip(LStrip(s))

\* str.replace(c, ""): every occurrence of the single character c removed.
RemoveChar(s, c) == SelectSeq(s, LAMBDA x : x /= c)

\* sub in s (substring test), and the first index where sub starts (0: none).
StartsAt(s, sub, i) ==
  /\ i + Len(sub) - 1 <= Len(s)
  /\ \A j \in 1..Len(sub) : s[i + j - 1] = sub[j]

Contains(s, sub) == \E i \in 1..(Len(s) + 1) : StartsAt(s, sub, i)

StartsWith(s, sub) == StartsAt(s, sub, 1)

\* str.replace(sub, ""): the non-overlapping occurrences of sub, left to right.
RECURSIVE RemoveAll(_, _)
RemoveAll(s, sub) ==
  IF s = <<>> \/ sub = <<>> THEN s
  ELSE IF StartsAt(s, sub, 1)
       THEN RemoveAll(SubSeq(s, Len(sub) + 1, Len(s)), sub)
       ELSE <<Head(s)>> \o RemoveAll(Tail(s), sub)

\* text.split(): the maximal runs of characters that are not white space.
RECURSIVE SplitWords(_, _)
SplitWords(s, word) ==
  IF s = <<>> THEN (IF word = <<>> THEN <<>> ELSE <<word>>)
  ELSE IF IsSpace(Head(s))
       THEN (IF word = <<>> THEN <<>> ELSE <<word>>) \o SplitWords(Tail(s), <<>>)
       ELSE SplitWords(Tail(s), Append(word, Head(s)))

\* " ".join(words)
RECURSIVE JoinWords(_)
JoinWords(words) ==
  IF words = <<>> THEN <<>>
  ELSE IF Len(words) = 1 THEN words[1]
       ELSE words[1] \o <<" ">> \o JoinWords(Tail(words))

-----------------------------------------------------------------------------
(* helpers.py                                                              *)

\* clean_text: " ".join(text.split()).strip(), "" for an empty text.
clean_text(text) ==
  IF text = <<>> THEN <<>> ELSE Strip(JoinWords(SplitWords(text, <<>>)))

\* re.sub(r"\D", "", s): every character that is not a digit removed.
StripNonDigits(s) == SelectSeq(s, IsDigit)

\* The lengths clean_inn accepts.
InnLengths == {10, 12}

\* A plausible slip: the length test made on the text before the non-digits
\* are removed.
clean_inn_RawLength(inn) ==
  IF inn = <<>> THEN <<>>
  ELSE IF Len(inn) \notin InnLengths THEN <<>> ELSE StripNonDigits(inn)

\* clean_inn: the digits of inn when there are 10 or 12 of them, else "".
clean_inn(inn) ==
  IF inn = <<>> THEN <<>>
  ELSE LET inn_clean == StripNonDigits(inn)
       IN  IF Len(inn_clean) \notin InnLengths THEN <<>> ELSE inn_clean

-----------------------------------------------------------------------------
(* Python int and float.  A natural number of any size is the sequence of  *)
(* its digits in base 2^15, least significant first and without leading    *)
(* zero digits (0 is <<>>): an int of Python is unbounded, and the 53-bit   *)
(* significand of a float does not fit the integers of the model checker.   *)

RECURSIVE Pow2(_)
Pow2(k) == IF k = 0 THEN 1 ELSE 2 * Pow2(k - 1)

LimbBits == 15

Base == Pow2(LimbBits)

RECURSIVE Pow10(_)
Pow10(k) == IF k = 0 THEN 1 ELSE 10 * Pow10(k - 1)

RECURSIVE NatNorm(_)
NatNorm(x) ==
  IF x /= <<>> /\ x[Len(x)] = 0 THEN NatNorm(SubSeq(x, 1, Len(x) - 1)) ELSE x

RECURSIVE NatFromInt(_)
NatFromInt(n) == IF n = 0 THEN <<>> ELSE <<n % Base>> \o NatFromInt(n \div Base)

\* Defined for the values below 2^31 only.
RECURSIVE NatToInt(_)
NatToInt(x) == IF x = <<>> THEN 0 ELSE x[1] + Base * NatToInt(Tail(x))

\* x * n + carry, for 0 <= n <= Base and 0 <= carry < Base
RECURSIVE NatMulAdd(_, _, _)
NatMulAdd(x, n, carry) ==
  IF x = <<>> THEN NatFromInt(carry)
  ELSE LET t == x[1] * n + carry
       IN  <<t % Base>> \o NatMulAdd(Tail(x), n, t \div Base)

NatMulSmall(x, n) == NatNorm(NatMulAdd(x, n, 0))

\* Long division by 0 < d <= Base: [q |-> the quotient, r |-> the remainder].
RECURSIVE NatDivStep(_, _, _)
NatDivStep(x, d, r) ==
  IF x = <<>> THEN [q |-> <<>>, r |-> r]
  ELSE LET t    == r * Base + x[Len(x)]
           rest == NatDivStep(SubSeq(x, 1, Len(x) - 1), d, t % d)
       IN  [q |-> Append(rest.q, t \div d), r |-> rest.r]

NatDivSmall(x, d) ==
  LET res == NatDivStep(x, d, 0) IN [q |-> NatNorm(res.q), r |-> res.r]

\* x * 10^k and the quotient and remainder of x by 10^k, three decimal digits
\* at a step.
RECURSIVE NatMulPow10(_, _)
NatMulPow10(x, k) ==
  IF k = 0 THEN x
  ELSE IF k >= 3 THEN NatMulPow10(NatMulSmall(x, 1000), k - 3)
  ELSE NatMulSmall(x, Pow10(k))

RECURSIVE NatDivPow10(_, _)
NatDivPow10(x, k) ==
  IF k = 0 THEN [q |-> x, r |-> FALSE]
  ELSE LET j    == IF k >= 3 THEN 3 ELSE k
           d    == NatDivSmall(x, Pow10(j))
           rest == NatDivPow10(d.q, k - j)
       IN  [q |-> rest.q, r |-> rest.r \/ d.r /= 0]

\* The number of bits of x.
RECURSIVE SmallBitLen(_)
SmallBitLen(n) == IF n = 0 THEN 0 ELSE 1 + SmallBitLen(n \div 2)

NatBitLen(x) ==
  IF x = <<>> THEN 0 ELSE (Len(x) - 1) * LimbBits + SmallBitLen(x[Len(x)])

\* Bit i of x, bit 0 the least significant.
NatBit(x, i) ==
  LET k == (i \div LimbBits) + 1
  IN  IF k > Len(x) THEN 0 ELSE (x[k] \div Pow2(i % LimbBits)) % 2

\* x * 2^s
NatShl(x, s) ==
  IF x = <<>> THEN <<>>
  ELSE [i \in 1..(s \div LimbBits) |-> 0] \o NatMulSmall(x, Pow2(s % LimbBits))

\* x \div 2^s
NatShr(x, s) ==
  LET k == s \div LimbBits
  IN  IF k >= Len(x) THEN <<>>
      ELSE NatDivSmall(SubSeq(x, k + 1, Len(x)), Pow2(s % LimbBits)).q

\* x + 1
RECURSIVE NatSucc(_)
NatSucc(x) ==
  IF x = <<>> THEN <<1>>
  ELSE IF x[1] + 1 < Base THEN <<x[1] + 1>> \o Tail(x)
  ELSE <<0>> \o NatSucc(Tail(x))

\* IEEE 754 binary64: the significand has 53 bits, and a finite float is
\* below 2^1024.
MantissaBits == 53

MaxExponent == 1024

\* A text of more than 309 digits without leading zeros writes a number of at
\* least 10^309, which is above 2^1024.
MaxFiniteDigits == 309

\* float('inf'): what float() and the product give for a value that rounds to
\* 2^1024 or more.
Infinity == [m |-> <<1>>, e |-> MaxExponent]

IsInf(x) == x.m /= <<>> /\ NatBitLen(x.m) + x.e > MaxExponent

\* int(float('inf')) raises OverflowError; the value stands for the exception.
OverflowError == <<-1>>

\* The float nearest to (q + f) * 2^e, ties to even, where 0 <= f < 1 and f > 0
\* iff sticky; q has more than MantissaBits + 1 bits whenever sticky.  A float
\* is [m |-> its 53-bit significand, e |-> its exponent], 0.0 is [m |-> <<>>];
\* it is infinite when the value reaches 2^MaxExponent.  Subnormals lie outside
\* the modelled amounts.
RoundToFloat(q, sticky, e) ==
  LET L == NatBitLen(q)
      d == L - MantissaBits
  IN  IF q = <<>> THEN [m |-> <<>>, e |-> 0]
      ELSE IF d <= 0 THEN [m |-> NatShl(q, 0 - d), e |-> e + d]
      ELSE LET keep == NatShr(q, d)
               half == NatBit(q, d - 1) = 1
               rest == sticky \/ NatShl(NatShr(q, d - 1), d - 1) /= q
               up   == half /\ (rest \/ NatBit(keep, 0) = 1)
               m1   == IF up THEN NatSucc(keep) ELSE keep
           IN  IF NatBitLen(m1) > MantissaBits
               THEN [m |-> NatShr(m1, 1), e |-> e + d + 1]
               ELSE [m |-> m1, e |-> e + d]

\* The value of a decimal digit; float() accepts every Unicode decimal digit.
DigitValue(c) ==
  IF c = "ar_1" THEN 1 ELSE (CHOOSE i \in 1..10 : AsciiDigits[i] = c) - 1

\* The natural number written by a sequence of decimal digits.
RECURSIVE DigitsToNat(_)
DigitsToNat(ds) ==
  IF ds = <<>> THEN <<>>
  ELSE NatNorm(NatMulAdd(DigitsToNat(SubSeq(ds, 1, Len(ds) - 1)), 10,
                         DigitValue(ds[Len(ds)])))

\* The number of characters after the "." of a text matched by \d+\.?\d*
FractionDigits(text) ==
  IF \E i \in 1..Len(text) : text[i] = "."
  THEN Len(text) - (CHOOSE i \in 1..Len(text) : text[i] = ".")
  ELSE 0

\* float(text) for a text matched by \d+\.?\d*: the correctly rounded quotient
\* of the digits' number by 10^(number of fraction digits).
ParseFloat(text) ==
  LET f     == FractionDigits(text)
      whole == Len(text) - f - (IF f > 0 THEN 1 ELSE 0)
      zeros == IF \A i \in 1..whole : text[i] = "0" THEN whole
               ELSE (CHOOSE k \in 1..whole :
                       text[k] /= "0" /\ \A j \in 1..(k - 1) : text[j] = "0") - 1
      shift == MantissaBits + 3 + 4 * f
      d     == NatDivPow10(NatShl(DigitsToNat(SelectSeq(text, IsDigit)), shift), f)
  IN  IF whole - zeros > MaxFiniteDigits THEN Infinity
      ELSE RoundToFloat(d.q, d.r, 0 - shift)

\* num *= 10^k (an int that a float holds exactly): the rounded product.
FloatMulPow10(x, k) == RoundToFloat(NatMulPow10(x.m, k), FALSE, x.e)

\* int(num): truncation toward zero of a non-negative float.
FloatToInt(x) ==
  IF x.m = <<>> THEN <<>>
  ELSE IF IsInf(x) THEN OverflowError
  ELSE IF x.e >= 0 THEN NatShl(x.m, x.e) ELSE NatShr(x.m, 0 - x.e)

-----------------------------------------------------------------------------
(* helpers.py: normalize_revenue                                           *)

KwOt == <<"cyr_o", "cyr_t">>

KwMlrd == <<"cyr_m", "cyr_l", "cyr_r", "cyr_d">>

KwBillion == <<"b", "i", "l", "l", "i", "o", "n">>

KwMln == <<"cyr_m", "cyr_l", "cyr_n">>

KwMillion == <<"m", "i", "l", "l", "i", "o", "n">>

KwTys == <<"cyr_t", "cyr_y", "cyr_s">>

KwThousand == <<"t", "h", "o", "u", "s", "a", "n", "d">>

IsRangeSeparator(c) == c \in {"-", "endash"}

\* re.split(r"[-–]", s)[0]: the text before the first separator.
RECURSIVE BeforeRangeSeparator(_)
BeforeRangeSeparator(s) ==
  IF s = <<>> \/ IsRangeSeparator(Head(s)) THEN <<>>
  ELSE <<Head(s)>> \o BeforeRangeSeparator(Tail(s))

\* The longest run of digits at the head of s.
DigitRun(s) ==
  IF \A i \in 1..Len(s) : IsDigit(s[i]) THEN s
  ELSE SubSeq(s, 1, (CHOOSE k \in 1..Len(s) :
                       ~IsDigit(s[k]) /\ \A j \in 1..(k - 1) : IsDigit(s[j])) - 1)

\* re.search(r"(\d+\.?\d*)", s).group(1): from the first digit of s, the
\* digits, then a "." if one follows, then the digits after it; <<>> when s
\* has no digit (no match).
MatchNumber(s) ==
  IF ~\E i \in 1..Len(s) : IsDigit(s[i]) THEN <<>>
  ELSE LET i    == CHOOSE k \in 1..Len(s) :
                     IsDigit(s[k]) /\ \A j \in 1..(k - 1) : ~IsDigit(s[j])
           int  == DigitRun(SubSeq(s, i, Len(s)))
           rest == SubSeq(s, i + Len(int), Len(s))
       IN  IF rest /= <<>> /\ Head(rest) = "."
           THEN int \o <<".">> \o DigitRun(Tail(rest))
           ELSE int

\* The power of ten of the magnitude keyword found in s, the first of
\* billion, million, thousand that occurs; 0 when there is none.
Magnitude(s) ==
  IF Contains(s, KwMlrd) \/ Contains(s, KwBillion) THEN 9
  ELSE IF Contains(s, KwMln) \/ Contains(s, KwMillion) THEN 6
  ELSE IF Contains(s, KwTys) \/ Contains(s, KwThousand) THEN 3
  ELSE 0

\* s = str(revenue_str).lower()
NormalizeCase(s) == Lower(s)

\* if "-" in s or "–" in s: s = re.split(...)[0]
RangeComponent(s) ==
  IF \E i \in 1..Len(s) : IsRangeSeparator(s[i]) THEN BeforeRangeSeparator(s) ELSE s

\* normalize_revenue: the amount of a text as an int (a natural number), or
\* OverflowError when int(num) raises it.
normalize_revenue(revenue_str) ==
  IF revenue_str = <<>> THEN <<>>
  ELSE LET s1    == Strip(NormalizeCase(revenue_str))
           s2    == RemoveChar(RemoveChar(s1, " "), ",")
           s3    == RangeComponent(s2)
           s     == IF Contains(s3, KwOt) THEN RemoveAll(s3, KwOt) ELSE s3
           match == MatchNumber(s)
       IN  IF match = <<>> THEN <<>>
           ELSE LET num == ParseFloat(match)
                    k   == Magnitude(s)
                IN  FloatToInt(IF k > 0 THEN FloatMulPow10(num, k) ELSE num)

-----------------------------------------------------------------------------
(* pandas.  A DataFrame is [columns |-> the set of its column names,        *)
(* rows |-> the sequence of its rows], a row being a function from the      *)
(* columns to cell values.  A text cell is a sequence of characters, NaN is *)
(* the missing value, an int64 cell is an integer.                          *)

NaN == <<"<NaN>">>

EmptyFrame == [columns |-> {}, rows |-> <<>>]

\* pd.notna(x)
notna(x) == x /= NaN

\* pd.DataFrame(companies): the columns are the keys that occur in some
\* mapping, a key that a mapping omits gives NaN in its row.
DataFrame(records) ==
  LET cols == UNION {DOMAIN records[i] : i \in 1..Len(records)}
  IN  [columns |-> cols,
       rows |-> [i \in 1..Len(records) |->
                   [c \in cols |-> IF c \in DOMAIN records[i]
                                   THEN records[i][c] ELSE NaN]]]

\* The elements of s at the indices where mask is TRUE, in order.
RECURSIVE Masked(_, _)
Masked(s, mask) ==
  IF s = <<>> THEN <<>>
  ELSE (IF Head(mask) THEN <<Head(s)>> ELSE <<>>) \o Masked(Tail(s), Tail(mask))

\* A plausible slip: the rows kept are returned last first.
FilterRows_Reversed(frame, mask) ==
  LET kept == Masked(frame.rows, mask)
  IN  [frame EXCEPT !.rows = [i \in 1..Len(kept) |-> kept[Len(kept) + 1 - i]]]

\* df[mask]: the rows whose entry of the mask is TRUE, in order.
FilterRows(frame, mask) == [frame EXCEPT !.rows = Masked(frame.rows, mask)]

\* df[col] = values, for a column that exists.
SetColumn(frame, col, values) ==
  [frame EXCEPT !.rows =
     [i \in 1..Len(frame.rows) |-> [frame.rows[i] EXCEPT ![col] = values[i]]]]

\* pd.to_numeric(x, errors='coerce') gives a number and not NaN: of the
\* modelled inputs, the texts of ASCII digits.
IsNumeric(x) ==
  x /= <<>> /\ \A i \in 1..Len(x) : x[i] \in {AsciiDigits[k] : k \in 1..10}

\* pd.to_numeric(x, errors='coerce') for such a text.
to_numeric(x) == NatToInt(DigitsToNat(x))

-----------------------------------------------------------------------------
(* cleaner.py: DataCleaner                                                 *)

\* The year given to a record without a numeric revenue_year.
DefaultRevenueYear == 2023

HttpScheme == <<"h", "t", "t", "p", ":", "/", "/">>

HttpsScheme == <<"h", "t", "t", "p", "s", ":", "/", "/">>

\* DataCleaner._clean_url
clean_url(url) ==
  IF url = NaN \/ url = <<>> THEN <<>>
  ELSE LET u == RemoveChar(Strip(url), " ")
       IN  IF u /= <<>> /\ ~StartsWith(u, HttpScheme) /\ ~StartsWith(u, HttpsScheme)
           THEN HttpScheme \o u
           ELSE u

\* lambda x: clean_text(str(x)) if pd.notna(x) else ''
CleanTextCell(x) == IF notna(x) THEN clean_text(x) ELSE <<>>

\* lambda x: clean_inn(str(x)) if pd.notna(x) else ''
CleanInnCell(x) == IF notna(x) THEN clean_inn(x) ELSE <<>>

\* lambda x: normalize_revenue(str(x)) if pd.notna(x) else 0, in an int64 column
CleanRevenueCell(x) == IF notna(x) THEN NatToInt(normalize_revenue(x)) ELSE 0

\* The lambda raises for the cell: the apply of the column raises with it.
RevenueRaises(x) == notna(x) /\ normalize_revenue(x) = OverflowError

\* pd.to_numeric(..., errors='coerce'), .fillna(2023).astype(int)
CleanYearCell(x) == IF IsNumeric(x) THEN to_numeric(x) ELSE DefaultRevenueYear

HasName(row) == row["name"] /= NaN /\ row["name"] /= <<>>

\* df = df[df['name'].notna() & (df['name'] != '')]
DropNameless(frame) ==
  FilterRows(frame, [i \in 1..Len(frame.rows) |-> HasName(frame.rows[i])])

\* The cleaning of the name column: if 'name' in df.columns: ...
\* df[col] = df[col].apply(clean_text ...), if col in df.columns
CleanTextColumn(frame, col) ==
  IF col \notin frame.columns THEN frame
  ELSE SetColumn(frame, col,
                 [i \in 1..Len(frame.rows) |-> CleanTextCell(frame.rows[i][col])])

CleanNames(frame) ==
  IF "name" \in frame.columns
  THEN DropNameless(CleanTextColumn(frame, "name"))
  ELSE frame

CleanInnColumn(frame) ==
  IF "inn" \notin frame.columns THEN frame
  ELSE SetColumn(frame, "inn",
                 [i \in 1..Len(frame.rows) |-> CleanInnCell(frame.rows[i]["inn"])])

CleanRevenueColumn(frame) ==
  IF "revenue" \notin frame.columns THEN frame
  ELSE SetColumn(frame, "revenue",
                 [i \in 1..Len(frame.rows) |-> CleanRevenueCell(frame.rows[i]["revenue"])])

CleanYearColumn(frame) ==
  IF "revenue_year" \notin frame.columns THEN frame
  ELSE SetColumn(frame, "revenue_year",
                 [i \in 1..Len(frame.rows) |-> CleanYearCell(frame.rows[i]["revenue_year"])])

CleanSiteColumn(frame) ==
  IF "site" \notin frame.columns THEN frame
  ELSE SetColumn(frame, "site",
                 [i \in 1..Len(frame.rows) |-> clean_url(frame.rows[i]["site"])])

\* The column blocks of clean_companies that follow the names, in order.
CleanColumns(frame) ==
  CleanTextColumn(
    CleanSiteColumn(
      CleanTextColumn(
        CleanTextColumn(
          CleanYearColumn(CleanRevenueColumn(CleanInnColumn(frame))),
          "okved_main"),
        "region")),
    "description")

\* DataCleaner.clean_companies: [raised |-> an exception left the method,
\* df |-> the table returned].  normalize_revenue can raise OverflowError in
\* the apply of the revenue column, and the last statement indexes df['name']
\* whether or not the column exists: KeyError without it.
clean_companies(records) ==
  LET named   == CleanNames(DataFrame(records))
      cleaned == CleanColumns(named)
  IN  IF /\ "revenue" \in named.columns
         /\ \E i \in 1..Len(named.rows) : RevenueRaises(named.rows[i]["revenue"])
      THEN [raised |-> TRUE, df |-> named]
      ELSE IF "name" \notin cleaned.columns
      THEN [raised |-> TRUE, df |-> cleaned]
      ELSE [raised |-> FALSE, df |-> DropNameless(cleaned)]

RequiredColumns == {"inn", "name", "revenue_year", "revenue", "segment_tag", "source"}

\* required_columns of ensure_required_columns: the default of each column.
RequiredDefault(col) ==
  IF col = "revenue_year" THEN DefaultRevenueYear
  ELSE IF col = "revenue" THEN 0
  ELSE <<>>

\* DataCleaner.ensure_required_columns: each missing required column is added
\* with its default; the columns that exist are left as they are.
ensure_required_columns(frame) ==
  [columns |-> frame.columns \cup RequiredColumns,
   rows |-> [i \in 1..Len(frame.rows) |->
               [c \in frame.columns \cup RequiredColumns |->
                  IF c \in frame.columns THEN frame.rows[i][c]
                  ELSE RequiredDefault(c)]]]

-----------------------------------------------------------------------------
(* deduplicator.py: Deduplicator                                            *)

\* df['inn'].isna() | (df['inn'] == '')
NoInn(row) == row["inn"] = NaN \/ row["inn"] = <<>>

WithInn(row) == ~NoInn(row)

\* A plausible slip: the sort ascending, the smallest revenue first.
SortsBefore_Ascending(a, b) ==
  \/ a["revenue"] < b["revenue"]
  \/ a["revenue"] = b["revenue"] /\ a["revenue_year"] < b["revenue_year"]

\* a sorts before b under by=['revenue', 'revenue_year'], both descending.
SortsBefore(a, b) ==
  \/ a["revenue"] > b["revenue"]
  \/ a["revenue"] = b["revenue"] /\ a["revenue_year"] > b["revenue_year"]

\* The row r put into the sorted rows after every row that does not sort
\* after it: the sort of several columns is stable.
RECURSIVE InsertSorted(_, _)
InsertSorted(sorted, r) ==
  IF sorted = <<>> THEN <<r>>
  ELSE IF SortsBefore(r, Head(sorted)) THEN <<r>> \o sorted
  ELSE <<Head(sorted)>> \o InsertSorted(Tail(sorted), r)

\* sort_values(by=['revenue', 'revenue_year'], ascending=[False, False])
RECURSIVE sort_values(_)
sort_values(rows) ==
  IF rows = <<>> THEN <<>>
  ELSE InsertSorted(sort_values(SubSeq(rows, 1, Len(rows) - 1)), rows[Len(rows)])

\* drop_duplicates(subset=..., keep='first'), keys[i] the value of the subset
\* in row i: a row is kept when no row before it has the same key.
DropDuplicatesBy(rows, keys) ==
  Masked(rows, [i \in 1..Len(rows) |-> \A j \in 1..(i - 1) : keys[j] /= keys[i]])

\* The rows that have, and that have not, an identifier.
RowsWithInn(rows) == Masked(rows, [i \in 1..Len(rows) |-> WithInn(rows[i])])

RowsWithoutInn(rows) == Masked(rows, [i \in 1..Len(rows) |-> NoInn(rows[i])])

\* df['name'].str.lower().str.strip()
NameNormalized(row) == Strip(Lower(row["name"]))

\* A plausible slip: the names compared as they are written.
NameKey_Raw(row) == row["name"]

\* The key of the pass over the rows without identifier.
NameKey(row) == NameNormalized(row)

\* A plausible slip: the sort left out, the first row kept per identifier.
DedupByInn_Unsorted(rows) ==
  DropDuplicatesBy(rows, [i \in 1..Len(rows) |-> rows[i]["inn"]])

\* Step 1, the rows with an identifier: sorted, one row kept per identifier.
DedupByInn(rows) ==
  LET sorted == sort_values(rows)
  IN  DropDuplicatesBy(sorted, [i \in 1..Len(sorted) |-> sorted[i]["inn"]])

\* A plausible slip: the rows without identifier are left as they are.
DedupByName_Skipped(rows) == rows

\* Step 2, the rows without identifier: the first row kept per normalized name.
DedupByName(rows) ==
  DropDuplicatesBy(rows, [i \in 1..Len(rows) |-> NameKey(rows[i])])

\* A plausible slip: mask_no_inn left out, the name pass run over every row.
RowsAfterNamePass_AcrossTiers(frame) ==
  LET with  == RowsWithInn(frame.rows)
      rows1 == (IF with /= <<>> THEN DedupByInn(with) ELSE with)
               \o RowsWithoutInn(frame.rows)
  IN  DedupByName(rows1)

\* Steps 1 and 2 of deduplicate, when neither raises: the rows given to the
\* last step, df_dedup.drop_duplicates().
RowsAfterNamePass(frame) ==
  LET hasInn  == "inn" \in frame.columns
      hasName == "name" \in frame.columns
      with    == RowsWithInn(frame.rows)
      without == RowsWithoutInn(frame.rows)
      rows1   == IF hasInn
                 THEN (IF with /= <<>> THEN DedupByInn(with) ELSE with) \o without
                 ELSE frame.rows
  IN  IF hasName /\ \E i \in 1..Len(rows1) : NoInn(rows1[i])
      THEN RowsWithInn(rows1) \o DedupByName(RowsWithoutInn(rows1))
      ELSE rows1

\* Deduplicator.deduplicate: [raised |-> an exception left the method,
\* df |-> the table returned].  The sort reads the columns revenue and
\* revenue_year when some row has an identifier, and the name pass reads the
\* column inn: KeyError without them.
deduplicate(frame) ==
  LET hasInn  == "inn" \in frame.columns
      hasName == "name" \in frame.columns
      with    == RowsWithInn(frame.rows)
      raised1 == /\ hasInn
                 /\ with /= <<>>
                 /\ ~({"revenue", "revenue_year"} \subseteq frame.columns)
      raised2 == hasName /\ ~hasInn
      rows2   == RowsAfterNamePass(frame)
  IN  IF raised1 \/ raised2 THEN [raised |-> TRUE, df |-> frame]
      ELSE [raised |-> FALSE,
            df |-> [frame EXCEPT !.rows = DropDuplicatesBy(rows2, rows2)]]

-----------------------------------------------------------------------------
(* config.py and validator.py: DataValidator                                *)

\* config.MIN_REVENUE, the default of the environment variable.
MIN_REVENUE == 200000000

\* The keys of config.SEGMENT_KEYWORDS.
valid_segments ==
  {<<"B", "T", "L">>, <<"E", "V", "E", "N", "T">>,
   <<"S", "O", "U", "V", "E", "N", "I", "R">>,
   <<"F", "U", "L", "L", "_", "C", "Y", "C", "L", "E">>,
   <<"C", "O", "M", "M", "_", "G", "R", "O", "U", "P">>}

\* config.RELEVANT_OKVED
RELEVANT_OKVED ==
  {<<"7", "3", ".", "1", "1">>, <<"7", "3", ".", "1", "2">>,
   <<"8", "2", ".", "3", "0">>, <<"7", "4", ".", "2", "0">>,
   <<"3", "2", ".", "9", "9">>, <<"4", "6", ".", "4", "9">>}

\* russian_keywords of _filter_by_country
russian_keywords ==
  {<<"cyr_m", "cyr_o", "cyr_s", "cyr_k", "cyr_v", "cyr_a">>,
   <<"cyr_s", "cyr_a", "cyr_n", "cyr_k", "cyr_t", "-", "cyr_p", "cyr_e", "cyr_t", "cyr_e", "cyr_r", "cyr_b", "cyr_u", "cyr_r", "cyr_g">>,
   <<"cyr_s", "cyr_p", "cyr_b">>,
   <<"cyr_r", "cyr_o", "cyr_s", "cyr_s", "cyr_i", "cyr_ya">>,
   <<"r", "u", "s", "s", "i", "a">>,
   <<"cyr_e", "cyr_k", "cyr_a", "cyr_t", "cyr_e", "cyr_r", "cyr_i", "cyr_n", "cyr_b", "cyr_u", "cyr_r", "cyr_g">>,
   <<"cyr_n", "cyr_o", "cyr_v", "cyr_o", "cyr_s", "cyr_i", "cyr_b", "cyr_i", "cyr_r", "cyr_s", "cyr_k">>,
   <<"cyr_k", "cyr_a", "cyr_z", "cyr_a", "cyr_n", "cyr_soft">>,
   <<"cyr_n", "cyr_i", "cyr_zh", "cyr_n", "cyr_i", "cyr_j", " ", "cyr_n", "cyr_o", "cyr_v", "cyr_g", "cyr_o", "cyr_r", "cyr_o", "cyr_d">>,
   <<"cyr_ch", "cyr_e", "cyr_l", "cyr_ya", "cyr_b", "cyr_i", "cyr_n", "cyr_s", "cyr_k">>,
   <<"cyr_s", "cyr_a", "cyr_m", "cyr_a", "cyr_r", "cyr_a">>,
   <<"cyr_r", "cyr_o", "cyr_s", "cyr_t", "cyr_o", "cyr_v">>,
   <<"cyr_u", "cyr_f", "cyr_a">>,
   <<"cyr_k", "cyr_r", "cyr_a", "cyr_s", "cyr_n", "cyr_o", "cyr_ya", "cyr_r", "cyr_s", "cyr_k">>,
   <<"cyr_p", "cyr_e", "cyr_r", "cyr_m", "cyr_soft">>,
   <<"cyr_v", "cyr_o", "cyr_r", "cyr_o", "cyr_n", "cyr_e", "cyr_zh">>,
   <<"cyr_v", "cyr_o", "cyr_l", "cyr_g", "cyr_o", "cyr_g", "cyr_r", "cyr_a", "cyr_d">>,
   <<"cyr_k", "cyr_r", "cyr_a", "cyr_s", "cyr_n", "cyr_o", "cyr_d", "cyr_a", "cyr_r">>,
   <<"cyr_s", "cyr_a", "cyr_r", "cyr_a", "cyr_t", "cyr_o", "cyr_v">>}

\* inactive_keywords of _filter_active_companies
inactive_keywords ==
  {<<"cyr_l", "cyr_i", "cyr_k", "cyr_v", "cyr_i", "cyr_d", "cyr_i", "cyr_r", "cyr_o", "cyr_v", "cyr_a", "cyr_n">>,
   <<"cyr_b", "cyr_a", "cyr_n", "cyr_k", "cyr_r", "cyr_o", "cyr_t", "cyr_s", "cyr_t", "cyr_v">>,
   <<"cyr_r", "cyr_e", "cyr_o", "cyr_r", "cyr_g", "cyr_a", "cyr_n", "cyr_i", "cyr_z", "cyr_a", "cyr_c">>,
   <<"l", "i", "q", "u", "i", "d", "a", "t", "e", "d">>,
   <<"b", "a", "n", "k", "r", "u", "p", "t">>}

\* series.str.lower().str.contains('|'.join(keywords), na=False) on a cell
ContainsAny(x, keywords) ==
  x /= NaN /\ \E kw \in keywords : Contains(Lower(x), kw)

\* A plausible slip: a row without region is not admitted.
InRussia_NoDefaultAdmit(row) == ContainsAny(row["region"], russian_keywords)

\* The mask of _filter_by_country.
InRussia(row) ==
  \/ ContainsAny(row["region"], russian_keywords)
  \/ row["region"] = NaN
  \/ row["region"] = <<>>

\* DataValidator._filter_by_country
filter_by_country(frame) ==
  IF "region" \notin frame.columns THEN frame
  ELSE FilterRows(frame, [i \in 1..Len(frame.rows) |-> InRussia(frame.rows[i])])

\* A plausible slip: the comparison strict.
ReachesMinRevenue_Strict(row) == row["revenue"] > MIN_REVENUE

\* df['revenue'] >= self.min_revenue
ReachesMinRevenue(row) == row["revenue"] >= MIN_REVENUE

\* A plausible slip: a table without the column admits no row.
filter_by_revenue_RejectsWithoutColumn(frame) ==
  IF "revenue" \notin frame.columns THEN [frame EXCEPT !.rows = <<>>]
  ELSE FilterRows(frame, [i \in 1..Len(frame.rows) |-> ReachesMinRevenue(frame.rows[i])])

\* DataValidator._filter_by_revenue
filter_by_revenue(frame) ==
  IF "revenue" \notin frame.columns THEN frame
  ELSE FilterRows(frame, [i \in 1..Len(frame.rows) |-> ReachesMinRevenue(frame.rows[i])])

\* A plausible slip: a row without tag is admitted.
HasValidSegment_DefaultAdmit(row) ==
  row["segment_tag"] \in valid_segments \cup {<<>>, NaN}

\* df['segment_tag'].isin(valid_segments)
HasValidSegment(row) == row["segment_tag"] \in valid_segments

\* A plausible slip: the pass left out.
validate_segment_Skipped(frame) == frame

\* DataValidator._validate_segment
validate_segment(frame) ==
  IF "segment_tag" \notin frame.columns THEN frame
  ELSE FilterRows(frame, [i \in 1..Len(frame.rows) |-> HasValidSegment(frame.rows[i])])

\* A plausible slip: the status searched as it is written, not lower-cased.
IsActive_CaseSensitive(row) ==
  \/ row["status"] = NaN
  \/ ~\E kw \in inactive_keywords : Contains(row["status"], kw)

\* The mask of _filter_active_companies.
IsActive(row) ==
  \/ ~ContainsAny(row["status"], inactive_keywords)
  \/ row["status"] = NaN
  \/ row["status"] = <<>>

\* DataValidator._filter_active_companies
filter_active_companies(frame) ==
  IF "status" \notin frame.columns THEN frame
  ELSE FilterRows(frame, [i \in 1..Len(frame.rows) |-> IsActive(frame.rows[i])])

\* A plausible slip: the code compared whole, not as a prefix.
is_relevant_okved_Exact(okved) == okved \in RELEVANT_OKVED

\* is_relevant_okved of check_relevance_by_okved
is_relevant_okved(okved) ==
  /\ okved /= NaN
  /\ okved /= <<>>
  /\ \E code \in RELEVANT_OKVED : StartsWith(okved, code)

\* DataValidator.check_relevance_by_okved: the column okved_relevant is set.
check_relevance_by_okved(frame) ==
  IF "okved_main" \notin frame.columns THEN frame
  ELSE [columns |-> frame.columns \cup {"okved_relevant"},
        rows |-> [i \in 1..Len(frame.rows) |->
                    [c \in frame.columns \cup {"okved_relevant"} |->
                       IF c = "okved_relevant"
                       THEN is_relevant_okved(frame.rows[i]["okved_main"])
                       ELSE frame.rows[i][c]]]]

-----------------------------------------------------------------------------
(* main.py: the export                                                     *)

\* column_order of main
column_order ==
  <<"inn", "name", "revenue_year", "revenue", "segment_tag", "source",
    "okved_main", "employees", "site", "description", "region", "contacts",
    "rating_ref", "okved_relevant">>

\* A plausible slip: the whole list, whatever the table has.
final_columns_All(frame) == column_order

\* final_columns = [col for col in column_order if col in df.columns]
final_columns(frame) == SelectSeq(column_order, LAMBDA col : col \in frame.columns)

\* df[final_columns]
Project(frame) ==
  LET cols == {column_order[i] : i \in 1..Len(column_order)} \cap frame.columns
  IN  [columns |-> cols,
       rows |-> [i \in 1..Len(frame.rows) |-> [c \in cols |-> frame.rows[i][c]]]]

\* rows is a rearrangement of the rows of frame.
IsPermutation(rows, of) ==
  /\ Len(rows) = Len(of)
  /\ \E f \in [1..Len(of) -> 1..Len(of)] :
       /\ \A i, j \in 1..Len(of) : i /= j => f[i] /= f[j]
       /\ \A i \in 1..Len(of) : rows[i] = of[f[i]]

\* A plausible slip: ascending=False left out.
RevenueDescending_Ascending(rows) ==
  \A i \in 1..(Len(rows) - 1) : rows[i]["revenue"] <= rows[i + 1]["revenue"]

\* The rows are in an order sort_values('revenue', ascending=False) can give:
\* the sort of one column is not stable, rows of equal revenue come in any
\* order.
RevenueDescending(rows) ==
  \A i \in 1..(Len(rows) - 1) : rows[i]["revenue"] >= rows[i + 1]["revenue"]

-----------------------------------------------------------------------------
(* main.py: main.  The stages run one after the other on the list that was  *)
(* loaded; an exception of a stage leaves main (pc = "raised").             *)

NotWritten == [written |-> FALSE, header |-> <<>>, rows |-> <<>>]

\* Step 2, first call: df = cleaner.clean_companies(companies)
CleanCompanies ==
  /\ pc = "clean"
  /\ LET res == clean_companies(companies)
     IN  IF res.raised
         THEN pc' = "raised" /\ df' = df
         ELSE pc' = "ensure" /\ df' = res.df
  /\ UNCHANGED <<companies, prev, df_export, arg, ret>>

\* Step 2, second call: df = cleaner.ensure_required_columns(df)
EnsureRequiredColumns ==
  /\ pc = "ensure"
  /\ prev' = df
  /\ df' = ensure_required_columns(df)
  /\ pc' = "deduplicate"
  /\ UNCHANGED <<companies, df_export, arg, ret>>

\* Step 3: df = deduplicator.deduplicate(df)
Deduplicate ==
  /\ pc = "deduplicate"
  /\ prev' = df
  /\ LET res == deduplicate(df)
     IN  IF res.raised
         THEN pc' = "raised" /\ df' = df
         ELSE pc' = "filter_country" /\ df' = res.df
  /\ UNCHANGED <<companies, df_export, arg, ret>>

\* Step 4, validator.validate(df), first pass
FilterByCountry ==
  /\ pc = "filter_country"
  /\ prev' = df
  /\ df' = filter_by_country(df)
  /\ pc' = "filter_revenue"
  /\ UNCHANGED <<companies, df_export, arg, ret>>

\* validator.validate(df), second pass
FilterByRevenue ==
  /\ pc = "filter_revenue"
  /\ prev' = df
  /\ df' = filter_by_revenue(df)
  /\ pc' = "validate_segment"
  /\ UNCHANGED <<companies, df_export, arg, ret>>

\* validator.validate(df), third pass
ValidateSegment ==
  /\ pc = "validate_segment"
  /\ prev' = df
  /\ df' = validate_segment(df)
  /\ pc' = "filter_active"
  /\ UNCHANGED <<companies, df_export, arg, ret>>

\* validator.validate(df), fourth pass
FilterActiveCompanies ==
  /\ pc = "filter_active"
  /\ prev' = df
  /\ df' = filter_active_companies(df)
  /\ pc' = "check_okved"
  /\ UNCHANGED <<companies, df_export, arg, ret>>

\* Step 4, second call: df = validator.check_relevance_by_okved(df)
CheckRelevanceByOkved ==
  /\ pc = "check_okved"
  /\ prev' = df
  /\ df' = check_relevance_by_okved(df)
  /\ pc' = "export"
  /\ UNCHANGED <<companies, df_export, arg, ret>>

\* A plausible slip: the export in a finally clause, run after an exception
\* too.
Export_AfterRaise ==
  /\ pc \in {"export", "raised"}
  /\ prev' = df
  /\ df_export' = [written |-> TRUE,
                   header |-> final_columns(df),
                   rows |-> Project(df).rows]
  /\ pc' = "done"
  /\ UNCHANGED <<companies, df, arg, ret>>

\* Step 5: the columns of column_order, the rows by revenue descending,
\* written to OUTPUT_FILE.
Export ==
  /\ pc = "export"
  /\ prev' = df
  /\ \E rows \in [1..Len(df.rows) -> {df.rows[i] : i \in 1..Len(df.rows)}] :
       /\ IsPermutation(rows, df.rows)
       /\ IF "revenue" \in df.columns THEN RevenueDescending(rows) ELSE rows = df.rows
       /\ df_export' = [written |-> TRUE,
                        header |-> final_columns(df),
                        rows |-> Project([df EXCEPT !.rows = rows]).rows]
  /\ pc' = "done"
  /\ UNCHANGED <<companies, df, arg, ret>>

-----------------------------------------------------------------------------
(* The runs of main on every list of at most MaxCompanies of the mappings   *)
(* below: the records of the tests of deduplicator.py and validator.py and  *)
(* records with blank, missing and malformed fields.                        *)

MaxCompanies == 3

CompanyA1 ==
  [inn |-> <<"1", "2", "3", "4", "5", "6", "7", "8", "9", "0">>,
   name |-> <<"C", "o", "m", "p", "a", "n", "y", " ", "A">>,
   revenue |-> <<"1", "0", "0", "0", "0", "0", "0">>]

CompanyA2 ==
  [inn |-> <<"1", "2", "3", "4", "5", "6", "7", "8", "9", "0">>,
   name |-> <<"C", "o", "m", "p", "a", "n", "y", " ", "A">>,
   revenue |-> <<"2", "0", "0", "0", "0", "0", "0">>]

CompanyB1 ==
  [inn |-> <<>>,
   name |-> <<"C", "o", "m", "p", "a", "n", "y", " ", "B">>,
   revenue |-> <<"5", "0", "0", "0", "0", "0">>]

CompanyB2 ==
  [inn |-> <<>>,
   name |-> <<"C", "o", "m", "p", "a", "n", "y", " ", "B">>,
   revenue |-> <<"6", "0", "0", "0", "0", "0">>]

CompanyC ==
  [inn |-> <<"9", "8", "7", "6", "5", "4", "3", "2", "1", "0">>,
   name |-> <<"C", "o", "m", "p", "a", "n", "y", " ", "C">>,
   revenue |-> <<"3", "0", "0", "0", "0", "0", "0", "0", "0">>,
   region |-> <<"CYR_M", "cyr_o", "cyr_s", "cyr_k", "cyr_v", "cyr_a">>,
   status |-> <<"CYR_D", "cyr_e", "cyr_j", "cyr_s", "cyr_t", "cyr_v", "cyr_u", "cyr_yu", "cyr_shch", "cyr_a", "cyr_ya">>,
   segment_tag |-> <<"B", "T", "L">>]

CompanyBlank ==
  [inn |-> <<"1", "2", "3", "4", "5", "6", "7", "8", "9", "0">>,
   name |-> <<" ", "TAB">>,
   revenue |-> <<"cyr_o", "cyr_t", " ", "5", "0", "0", " ", "cyr_m", "cyr_l", "cyr_n">>,
   segment_tag |-> <<"B", "T", "L">>,
   source |-> <<"w", "e", "b">>]

CompanyNoName ==
  [inn |-> <<"9", "8", "-", "7", "6", "5", "4", "-", "3", "2", "1", "0">>,
   revenue |-> <<"2", "5", "0", " ", "cyr_m", "cyr_l", "cyr_n">>,
   revenue_year |-> <<"2", "0", "2", "2">>,
   segment_tag |-> <<"E", "V", "E", "N", "T">>,
   okved_main |-> <<"7", "3", ".", "1", "1">>]

CompanyD ==
  [name |-> <<" ", " ", "c", "o", "m", "p", "a", "n", "y", " ", " ", "b", " ">>,
   revenue |-> <<"4", "0", "0", " ", "cyr_m", "cyr_l", "cyr_n">>,
   revenue_year |-> <<"n", "/", "a">>,
   segment_tag |-> <<"E", "V", "E", "N", "T">>,
   region |-> <<"U", "S", "A">>,
   okved_main |-> <<"7", "3", ".", "1", "1", " ">>,
   site |-> <<"d", ".", "e", "x", "a", "m", "p", "l", "e">>,
   source |-> <<"w", "e", "b">>]

CompanyE ==
  [inn |-> <<"1", "2", "3", "4", "5", "6", "7", "8", "9", "0">>,
   name |-> <<"C", "o", "m", "p", "a", "n", "y", " ", "E">>,
   revenue |-> <<"2", " ", "cyr_m", "cyr_l", "cyr_r", "cyr_d">>,
   revenue_year |-> <<"2", "0", "2", "2">>,
   segment_tag |-> <<"B", "T", "L">>,
   region |-> <<>>,
   status |-> <<"CYR_L", "cyr_i", "cyr_k", "cyr_v", "cyr_i", "cyr_d", "cyr_i", "cyr_r", "cyr_o", "cyr_v", "cyr_a", "cyr_n", "cyr_a">>,
   okved_main |-> <<"6", "2", ".", "0", "1">>,
   source |-> <<"r", "r", "a", "r">>]

SeedCompanies ==
  {CompanyA1, CompanyA2, CompanyB1, CompanyB2, CompanyC, CompanyBlank,
   CompanyNoName, CompanyD, CompanyE}

Init ==
  /\ pc = "clean"
  /\ \E n \in 0..MaxCompanies : companies \in [1..n -> SeedCompanies]
  /\ df = EmptyFrame
  /\ prev = EmptyFrame
  /\ df_export = NotWritten
  /\ arg = <<>>
  /\ ret = <<>>

Next ==
  \/ CleanCompanies
  \/ EnsureRequiredColumns
  \/ Deduplicate
  \/ FilterByCountry
  \/ FilterByRevenue
  \/ ValidateSegment
  \/ FilterActiveCompanies
  \/ CheckRelevanceByOkved
  \/ Export

Spec == Init /\ [][Next]_vars

-----------------------------------------------------------------------------
(* clean_inn on every text of at most MaxInnLen characters made of the     *)
(* digits "1234567890123..." in that order with "-" anywhere between them. *)

MaxInnLen == 13

NumDigits(s) == Len(StripNonDigits(s))

InitInn ==
  /\ pc = "inn_build"
  /\ arg = <<>>
  /\ ret = <<>>
  /\ companies = <<>>
  /\ df = EmptyFrame
  /\ prev = EmptyFrame
  /\ df_export = NotWritten

\* The caller's text grows by the next digit of the pattern.
AppendDigit ==
  /\ pc = "inn_build"
  /\ Len(arg) < MaxInnLen
  /\ arg' = Append(arg, AsciiDigits[((NumDigits(arg) + 1) % 10) + 1])
  /\ UNCHANGED <<pc, companies, df, prev, df_export, ret>>

\* The caller's text grows by a separator.
AppendSeparator ==
  /\ pc = "inn_build"
  /\ Len(arg) < MaxInnLen
  /\ arg' = Append(arg, "-")
  /\ UNCHANGED <<pc, companies, df, prev, df_export, ret>>

\* ret = clean_inn(arg)
CallCleanInn ==
  /\ pc = "inn_build"
  /\ ret' = clean_inn(arg)
  /\ pc' = "inn_cleaned"
  /\ UNCHANGED <<companies, df, prev, df_export, arg>>

\* The result is cleaned once more: arg keeps the first result.
CallCleanInnAgain ==
  /\ pc = "inn_cleaned"
  /\ arg' = ret
  /\ ret' = clean_inn(ret)
  /\ pc' = "inn_recleaned"
  /\ UNCHANGED <<companies, df, prev, df_export>>

NextInn == AppendDigit \/ AppendSeparator \/ CallCleanInn \/ CallCleanInnAgain

SpecInn == InitInn /\ [][NextInn]_vars

-----------------------------------------------------------------------------
(* normalize_revenue on the texts                                          *)
(*   [prefix] [amount] [separator amount] [space] [magnitude keyword]      *)

CyrOT == <<"CYR_O", "CYR_T">>

RevenuePrefixes == {<<>>, KwOt \o <<" ">>, CyrOT \o <<" ">>, KwOt}

RevenueAmounts ==
  {<<>>, <<"2", "0", "0">>, <<"5", "0", "0">>, <<"1", "5", "0">>,
   <<"1", "5", "0", "0", "0", "0", "0", "0", "0">>, <<"1", ",", "5", "0", "0">>,
   <<"1", ".", "5">>, <<"2", ".", "0", "1">>}

RevenueRangeEnds ==
  {<<>>, <<"-", "5", "0", "0">>, <<"endash", "5", "0", "0">>,
   <<" ", "-", " ", "5", "0", "0">>}

RevenueSpaces == {<<>>, <<" ">>}

RevenueKeywords ==
  {<<>>, KwMln, <<"CYR_M", "CYR_L", "CYR_N">>, KwMlrd,
   <<"CYR_M", "cyr_l", "cyr_r", "cyr_d">>, KwTys, <<"CYR_T", "CYR_Y", "CYR_S">>,
   KwMillion, KwBillion, <<"T", "h", "o", "u", "s", "a", "n", "d">>,
   <<"r", "u", "b">>}

InitRevenue ==
  /\ pc = "revenue_call"
  /\ \E p \in RevenuePrefixes, a \in RevenueAmounts, r \in RevenueRangeEnds,
        sp \in RevenueSpaces, kw \in RevenueKeywords :
       arg = p \o a \o r \o sp \o kw
  /\ ret = <<>>
  /\ companies = <<>>
  /\ df = EmptyFrame
  /\ prev = EmptyFrame
  /\ df_export = NotWritten

\* ret = normalize_revenue(arg)
CallNormalizeRevenue ==
  /\ pc = "revenue_call"
  /\ ret' = normalize_revenue(arg)
  /\ pc' = "revenue_done"
  /\ UNCHANGED <<companies, df, prev, df_export, arg>>

NextRevenue == CallNormalizeRevenue

SpecRevenue == InitRevenue /\ [][NextRevenue]_vars

-----------------------------------------------------------------------------
(* clean_companies and ensure_required_columns on every batch of at most    *)
(* MaxBatch mappings; a mapping has or omits each key, and its values are    *)
(* well-formed, blank and malformed texts.                                  *)

MaxBatch == 2

\* Marks a key that a mapping omits.
Absent == <<"<absent>">>

\* The mapping with the keys of full that are not marked absent.
RawCompany(full) == [k \in {c \in DOMAIN full : full[c] /= Absent} |-> full[k]]

RawNames == {Absent, <<" ", "TAB">>, <<" ", "A", " ", " ", "b", "NL">>}

RawInns ==
  {Absent, <<"7", "7", "-", "0", "1", "2", "3", "4", "5", "6", " ", "7">>,
   <<"1", "2", "3">>}

\* A revenue text of one digit more than a finite float can hold.
HugeRevenue == [i \in 1..(MaxFiniteDigits + 1) |-> "9"]

RawRevenues ==
  {Absent, <<>>, <<"n", "/", "a">>, <<"2", "0", "0", " ">> \o KwMln, HugeRevenue}

RawRest ==
  {[revenue_year |-> Absent, segment_tag |-> Absent, source |-> Absent],
   [revenue_year |-> <<"2", "0", "2", "2">>, segment_tag |-> <<"B", "T", "L">>,
    source |-> <<"w", "e", "b">>],
   [revenue_year |-> <<"n", "/", "a">>, segment_tag |-> Absent,
    source |-> <<"w", "e", "b">>]}

RawCompanies ==
  {RawCompany([name |-> n, inn |-> i, revenue |-> r,
               revenue_year |-> x.revenue_year, segment_tag |-> x.segment_tag,
               source |-> x.source]) :
     n \in RawNames, i \in RawInns, r \in RawRevenues, x \in RawRest}

InitClean ==
  /\ pc = "clean"
  /\ \E n \in 0..MaxBatch : companies \in [1..n -> RawCompanies]
  /\ df = EmptyFrame
  /\ prev = EmptyFrame
  /\ df_export = NotWritten
  /\ arg = <<>>
  /\ ret = <<>>

NextClean == CleanCompanies \/ EnsureRequiredColumns

SpecClean == InitClean /\ [][NextClean]_vars

-----------------------------------------------------------------------------
(* deduplicate on every table of at most MaxTable rows with the columns     *)
(* inn, name, revenue and revenue_year, in every order of the rows.         *)

MaxTable == 3

DedupInns ==
  {<<>>, <<"1", "2", "3", "4", "5", "6", "7", "8", "9", "0">>,
   <<"9", "8", "7", "6", "5", "4", "3", "2", "1", "0">>}

DedupNames == {<<"A", "b">>, <<"a", "b", " ">>, <<"C", "d">>}

\* revenue and revenue_year
DedupFigures == {<<1000000, 2022>>, <<1000000, 2023>>, <<2000000, 2022>>}

\* The rows with an identifier have one of two names, the rows without have
\* one of three, two of them equal once normalized.
DedupKeys ==
  {k \in DedupInns \X DedupNames : k[1] = <<>> \/ k[2] /= <<"a", "b", " ">>}

DedupRows ==
  {[inn |-> k[1], name |-> k[2], revenue |-> f[1], revenue_year |-> f[2]] :
     k \in DedupKeys, f \in DedupFigures}

InitDedup ==
  /\ pc = "deduplicate"
  /\ \E n \in 0..MaxTable :
       \E rows \in [1..n -> DedupRows] :
         df = [columns |-> {"inn", "name", "revenue", "revenue_year"}, rows |-> rows]
  /\ companies = <<>>
  /\ prev = EmptyFrame
  /\ df_export = NotWritten
  /\ arg = <<>>
  /\ ret = <<>>

NextDedup == Deduplicate

SpecDedup == InitDedup /\ [][NextDedup]_vars

-----------------------------------------------------------------------------
(* The four passes of DataValidator, each called once, in every order, on   *)
(* every table of at most MaxPassRows rows that has the columns region,     *)
(* revenue, segment_tag and status.  ret is the table before the first      *)
(* pass, prev the table given to the last pass, arg the passes called.      *)

MaxPassRows == 2

RegionMoscow == <<"cyr_g", ".", " ", "CYR_M", "CYR_O", "CYR_S", "CYR_K", "CYR_V", "CYR_A">>

RegionUSA == <<"U", "S", "A">>

SegmentBTL == <<"B", "T", "L">>

SegmentLower == <<"b", "t", "l">>

StatusActive == <<"CYR_D", "cyr_e", "cyr_j", "cyr_s", "cyr_t", "cyr_v", "cyr_u", "cyr_yu", "cyr_shch", "cyr_a", "cyr_ya">>

StatusBankrupt == 
  <<"cyr_v", " ", "cyr_s", "cyr_t", "cyr_a", "cyr_d", "cyr_i", "cyr_i", " ",
    "CYR_B", "CYR_A", "CYR_N", "CYR_K", "CYR_R", "CYR_O", "CYR_T", "CYR_S", "CYR_T", "CYR_V", "CYR_A">>

PassRow(region, revenue, segment_tag, status) ==
  [region |-> region, revenue |-> revenue, segment_tag |-> segment_tag,
   status |-> status]

\* A row that every pass keeps, rows that one pass removes, with a value that
\* is wrong, empty or missing, and rows that several passes remove.
PassRows ==
  {PassRow(RegionMoscow, MIN_REVENUE, SegmentBTL, StatusActive),
   PassRow(<<>>, MIN_REVENUE, SegmentBTL, <<>>),
   PassRow(RegionUSA, MIN_REVENUE, SegmentBTL, StatusActive),
   PassRow(RegionMoscow, MIN_REVENUE - 1, SegmentBTL, StatusActive),
   PassRow(<<>>, 0, SegmentBTL, <<>>),
   PassRow(RegionMoscow, MIN_REVENUE, SegmentLower, StatusActive),
   PassRow(NaN, MIN_REVENUE, <<>>, NaN),
   PassRow(RegionMoscow, MIN_REVENUE, SegmentBTL, StatusBankrupt),
   PassRow(RegionMoscow, MIN_REVENUE - 1, <<>>, StatusActive),
   PassRow(RegionUSA, MIN_REVENUE - 1, NaN, StatusBankrupt)}

InitPasses ==
  /\ pc = "passes"
  /\ \E n \in 0..MaxPassRows :
       \E rows \in [1..n -> PassRows] :
         df = [columns |-> {"region", "revenue", "segment_tag", "status"},
               rows |-> rows]
  /\ ret = df
  /\ prev = df
  /\ arg = <<>>
  /\ companies = <<>>
  /\ df_export = NotWritten

Called(pass) == \E i \in 1..Len(arg) : arg[i] = pass

\* df = self._filter_by_country(df)
CallFilterByCountry ==
  /\ pc = "passes"
  /\ ~Called("country")
  /\ prev' = df
  /\ df' = filter_by_country(df)
  /\ arg' = Append(arg, "country")
  /\ UNCHANGED <<pc, companies, df_export, ret>>

\* df = self._filter_by_revenue(df)
CallFilterByRevenue ==
  /\ pc = "passes"
  /\ ~Called("revenue")
  /\ prev' = df
  /\ df' = filter_by_revenue(df)
  /\ arg' = Append(arg, "revenue")
  /\ UNCHANGED <<pc, companies, df_export, ret>>

\* df = self._validate_segment(df)
CallValidateSegment ==
  /\ pc = "passes"
  /\ ~Called("segment")
  /\ prev' = df
  /\ df' = validate_segment(df)
  /\ arg' = Append(arg, "segment")
  /\ UNCHANGED <<pc, companies, df_export, ret>>

\* df = self._filter_active_companies(df)
CallFilterActiveCompanies ==
  /\ pc = "passes"
  /\ ~Called("active")
  /\ prev' = df
  /\ df' = filter_active_companies(df)
  /\ arg' = Append(arg, "active")
  /\ UNCHANGED <<pc, companies, df_export, ret>>

NextPasses ==
  \/ CallFilterByCountry
  \/ CallFilterByRevenue
  \/ CallValidateSegment
  \/ CallFilterActiveCompanies

SpecPasses == InitPasses /\ [][NextPasses]_vars

-----------------------------------------------------------------------------
(* The end of main, from the table validate returned: the six required      *)
(* columns and some of okved_main, region and status; at most MaxExportRows *)
(* rows, each with its own inn, that every pass of validate keeps.          *)

MaxExportRows == 2

ExportInns ==
  {<<"1", "2", "3", "4", "5", "6", "7", "8", "9", "0">>,
   <<"9", "8", "7", "6", "5", "4", "3", "2", "1", "0">>,
   <<"5", "5", "5", "5", "5", "5", "5", "5", "5", "5">>}

ExportRevenues == {MIN_REVENUE, MIN_REVENUE + 100000000}

\* No code, codes that begin with a code of RELEVANT_OKVED, a code that does
\* not, and a code that has one inside but not at its beginning.
ExportOkveds ==
  {<<>>, <<"7", "3", ".", "1", "1">>, <<"8", "2", ".", "3", "0", ".", "1">>,
   <<"6", "2", ".", "0", "1">>, <<"1", "7", "3", ".", "1", "1">>}

ExportColumnSets ==
  {RequiredColumns \cup {"okved_main", "region", "status"},
   RequiredColumns \cup {"okved_main"},
   RequiredColumns \cup {"status"}}

ValidatedRow(inn, revenue, okved) ==
  [inn |-> inn, name |-> <<"C", "o", "m", "p", "a", "n", "y">>,
   revenue_year |-> DefaultRevenueYear, revenue |-> revenue,
   segment_tag |-> SegmentBTL, source |-> <<>>, okved_main |-> okved,
   region |-> RegionMoscow, status |-> StatusActive]

ValidatedRows ==
  {ValidatedRow(inn, revenue, okved) :
     inn \in ExportInns, revenue \in ExportRevenues, okved \in ExportOkveds}

InitExport ==
  /\ pc = "check_okved"
  /\ \E n \in 0..MaxExportRows, columns \in ExportColumnSets :
       \E rows \in [1..n -> ValidatedRows] :
         /\ \A i, j \in 1..n : i /= j => rows[i]["inn"] /= rows[j]["inn"]
         /\ df = [columns |-> columns,
                  rows |-> [i \in 1..n |-> [c \in columns |-> rows[i][c]]]]
  /\ prev = df
  /\ df_export = NotWritten
  /\ companies = <<>>
  /\ arg = <<>>
  /\ ret = <<>>

NextExport ==
  \/ CheckRelevanceByOkved
  \/ Export

SpecExport == InitExport /\ [][NextExport]_vars

-----------------------------------------------------------------------------
(* The runs of main on the five records of the test of deduplicator.py,     *)
(* the last with the revenue, region, status and segment of the test of     *)
(* validator.py, in every order of the list that has the first "Company B"  *)
(* before the second.                                                       *)

ScenarioCompanies == <<CompanyA1, CompanyA2, CompanyB1, CompanyB2, CompanyC>>

\* The orders of the list: order[k] is the place in the list of record k.
ScenarioOrders ==
  {order \in [1..Len(ScenarioCompanies) -> 1..Len(ScenarioCompanies)] :
     /\ \A i, j \in 1..Len(ScenarioCompanies) : i /= j => order[i] /= order[j]
     /\ order[3] < order[4]}

InitScenario ==
  /\ pc = "clean"
  /\ \E order \in ScenarioOrders :
       companies = [p \in 1..Len(ScenarioCompanies) |->
                      ScenarioCompanies[CHOOSE k \in 1..Len(ScenarioCompanies) :
                                          order[k] = p]]
  /\ df = EmptyFrame
  /\ prev = EmptyFrame
  /\ df_export = NotWritten
  /\ arg = <<>>
  /\ ret = <<>>

SpecScenario == InitScenario /\ [][Next]_vars

-----------------------------------------------------------------------------
(* enrichers: RusprofileEnricher and ListOrgEnricher.  A mapping is a        *)
(* function of its keys.  What a registry answers is an input: ok is FALSE   *)
(* when the request raised or the HTTP status was an error, and the texts of *)
(* the answer are the texts of the elements or fields the code reads.  A     *)
(* method that returns Optional[Dict] returns None or Some(mapping).         *)

None == [none |-> TRUE]

Some(value) == [none |-> FALSE, value |-> value]

EmptyDict == [k \in {} |-> <<>>]

\* {**a, **b} and a.update(b)
Merge(a, b) ==
  [k \in DOMAIN a \cup DOMAIN b |-> IF k \in DOMAIN b THEN b[k] ELSE a[k]]

\* The mapping d with d[key] = value when present holds.
WithKey(d, present, key, value) ==
  IF present THEN Merge(d, [k \in {key} |-> value]) ELSE d

\* re.search(r'\d{lo,hi}', text): the match, NaN when there is none.
DigitsMatch(text, lo, hi) ==
  LET starts == {i \in 1..Len(text) :
                   /\ i + lo - 1 <= Len(text)
                   /\ \A k \in i..(i + lo - 1) : IsDigit(text[k])}
  IN  IF starts = {} THEN NaN
      ELSE LET i   == CHOOSE s \in starts : \A o \in starts : s <= o
               run == DigitRun(SubSeq(text, i, Len(text)))
           IN  SubSeq(run, 1, IF Len(run) > hi THEN hi ELSE Len(run))

\* re.search(r'20\d{2}', text) and re.search(r'\d{2}\.\d{2}', text): the
\* match, NaN when there is none.
PatternMatch(text, pattern) ==
  LET fits(i) == /\ i + Len(pattern) - 1 <= Len(text)
                 /\ \A k \in 1..Len(pattern) :
                      IF pattern[k] = "d" THEN IsDigit(text[i + k - 1])
                      ELSE text[i + k - 1] = pattern[k]
      starts  == {i \in 1..Len(text) : fits(i)}
  IN  IF starts = {} THEN NaN
      ELSE LET i == CHOOSE s \in starts : \A o \in starts : s <= o
           IN  SubSeq(text, i, i + Len(pattern) - 1)

\* RusprofileEnricher._parse_search_result
rusprofile_parse_search_result(item) ==
  LET inn_match  == IF "inn" \in DOMAIN item
                    THEN DigitsMatch(clean_text(item["inn"]), 10, 12) ELSE NaN
      ogrn_match == IF "ogrn" \in DOMAIN item
                    THEN DigitsMatch(clean_text(item["ogrn"]), 13, 15) ELSE NaN
      d1 == WithKey(EmptyDict, "name" \in DOMAIN item, "name",
                    clean_text(item["name"]))
      d2 == WithKey(d1, inn_match /= NaN, "inn", clean_inn(inn_match))
      d3 == WithKey(d2, ogrn_match /= NaN, "ogrn", ogrn_match)
      d4 == WithKey(d3, "region" \in DOMAIN item, "region",
                    clean_text(item["region"]))
      data == WithKey(d4, "status" \in DOMAIN item, "status",
                      clean_text(item["status"]))
  IN  IF "inn" \in DOMAIN data /\ data["inn"] /= <<>> THEN Some(data) ELSE None

\* RusprofileEnricher.search_company
rusprofile_search_company(response) ==
  IF ~response.ok THEN None
  ELSE IF response.items = <<>> THEN None
  ELSE rusprofile_parse_search_result(response.items[1])

\* RusprofileEnricher.get_company_details
rusprofile_get_company_details(response) ==
  LET page == response.page
      hasRevenue == "revenue" \in DOMAIN page
      revenue == normalize_revenue(clean_text(page["revenue"]))
      year_match == IF hasRevenue /\ "report_year" \in DOMAIN page
                    THEN PatternMatch(clean_text(page["report_year"]),
                                      <<"2", "0", "d", "d">>)
                    ELSE NaN
      okved_match == IF "okved" \in DOMAIN page
                     THEN PatternMatch(clean_text(page["okved"]),
                                       <<"d", "d", ".", "d", "d">>)
                     ELSE NaN
      emp_match == IF "employees" \in DOMAIN page
                   THEN DigitsMatch(clean_text(page["employees"]), 1,
                                    Len(page["employees"]))
                   ELSE NaN
      d1 == WithKey(EmptyDict, hasRevenue, "revenue", NatToInt(revenue))
      d2 == WithKey(d1, year_match /= NaN, "revenue_year",
                    NatToInt(DigitsToNat(year_match)))
      d3 == WithKey(d2, okved_match /= NaN, "okved_main", okved_match)
      d4 == WithKey(d3, emp_match /= NaN, "employees",
                    NatToInt(DigitsToNat(emp_match)))
      d5 == WithKey(d4, "site" \in DOMAIN page, "site", Strip(page["site"]))
      details == WithKey(d5, "phone" \in DOMAIN page, "contacts",
                         clean_text(page["phone"]))
  IN  IF ~response.ok THEN None
      ELSE IF hasRevenue /\ revenue = OverflowError THEN None
      ELSE Some(details)

\* dict.get(key, '') of a mapping of texts
GetText(d, key) == IF key \in DOMAIN d THEN d[key] ELSE <<>>

\* ListOrgEnricher.search_company
listorg_search_company(response) ==
  LET data == response.json
      first_match == data["result"][1]
      okved == GetText(first_match, "okved")
  IN  IF ~response.ok THEN None
      ELSE IF "result" \notin DOMAIN data \/ data["result"] = <<>> THEN None
      ELSE IF GetText(first_match, "inn") = <<>> THEN None
      ELSE Some([inn |-> clean_inn(first_match["inn"]),
                 name |-> clean_text(GetText(first_match, "name")),
                 region |-> clean_text(GetText(first_match, "region")),
                 status |-> clean_text(GetText(first_match, "state")),
                 ogrn |-> clean_text(GetText(first_match, "ogrn")),
                 okved_main |->
                   clean_text(SubSeq(okved, 1,
                                     IF Len(okved) > 5 THEN 5 ELSE Len(okved)))])

\* ListOrgEnricher.get_financials; the year of a report is a number.
listorg_get_financials(response) ==
  LET data == response.json
      hasReport  == "finance" \in DOMAIN data /\ data["finance"] /= <<>>
      latest_report == data["finance"][1]
      hasRevenue == hasReport /\ GetText(latest_report, "revenue") /= <<>>
      revenue == normalize_revenue(latest_report["revenue"])
      emp_match == DigitsMatch(GetText(data, "employees"), 1,
                               Len(GetText(data, "employees")))
      d1 == WithKey(EmptyDict, hasRevenue, "revenue", NatToInt(revenue))
      d2 == WithKey(d1, hasRevenue, "revenue_year",
                    IF "year" \in DOMAIN latest_report
                    THEN latest_report["year"] ELSE DefaultRevenueYear)
      d3 == WithKey(d2, emp_match /= NaN, "employees",
                    NatToInt(DigitsToNat(emp_match)))
      result == WithKey(d3, GetText(data, "website") /= <<>>, "site",
                        Strip(GetText(data, "website")))
  IN  IF ~response.ok THEN None
      ELSE IF hasRevenue /\ revenue = OverflowError THEN None
      ELSE Some(result)

\* The body of the loop of enrich_companies for company: the list enriched
\* after it, search_result and details being what the two lookups returned.
EnrichOne(enriched, company, search_result, details) ==
  IF search_result.none \/ search_result.value["inn"] = <<>> THEN enriched
  ELSE Append(enriched,
              IF details.none \/ details.value = EmptyDict
              THEN Merge(company, search_result.value)
              ELSE Merge(Merge(company, search_result.value), details.value))

-----------------------------------------------------------------------------
(* enrich_companies of the two enrichers on every list of at most           *)
(* MaxEnrich companies, each lookup answered in one of the ways below.  arg *)
(* is the number of companies the loop has taken, ret the list enriched.    *)

MaxEnrich == 2

\* The texts of the companies and of the answers.
TextCa ==
  <<"C", "o", "m", "p", "a", "n", "y", " ", "A">>

TextCb ==
  <<"C", "o", "m", "p", "a", "n", "y", " ", "B">>

TextRn ==
  <<"O", "O", "O", " ", "C", "o", "m", "p", "a", "n", "y", " ", "A">>

TextInn10 ==
  <<"I", "N", "N", " ", "7", "7", "0", "1", "2", "3", "4", "5", "6", "7">>

TextInn11 ==
  <<"I", "N", "N", " ", "7", "7", "0", "1", "2", "3", "4", "5", "6", "7",
    "8">>

TextOgrn ==
  <<"O", "G", "R", "N", " ", "1", "0", "2", "7", "7", "0", "0", "0", "0",
    "0", "0", "0", "1">>

TextMoscow ==
  <<"CYR_M", "cyr_o", "cyr_s", "cyr_k", "cyr_v", "cyr_a">>

TextActive ==
  <<"CYR_D", "cyr_e", "cyr_j", "cyr_s", "cyr_t", "cyr_v", "cyr_u", "cyr_yu",
    "cyr_shch", "cyr_a", "cyr_ya">>

TextRev ==
  <<"3", "0", "0", " ", "cyr_m", "cyr_l", "cyr_n">>

TextYear ==
  <<"2", "0", "2", "2", " ", "g", "o", "d">>

TextOkved ==
  <<"7", "3", ".", "1", "1", " ", "R", "e", "k", "l", "a", "m", "a">>

TextEmp ==
  <<"2", "5", " ", "c", "h", "e", "l">>

TextSite ==
  <<" ", "a", ".", "e", "x", "a", "m", "p", "l", "e", " ">>

TextPhone ==
  <<"+", "7", " ", "4", "9", "5", " ", "0", "0", "0">>

TextLinn ==
  <<"7", "7", "0", "1", "2", "3", "4", "5", "6", "7">>

TextLokved ==
  <<"7", "3", ".", "1", "1", ".", "1">>

TextLrev ==
  <<"3", "0", "0", "0", "0", "0", "0", "0", "0">>
EnrichInputs ==
  {[name |-> TextCa, segment_tag |-> <<"B", "T", "L">>,
    source |-> <<"t", "e", "s", "t">>],
   [name |-> TextCb, segment_tag |-> <<"E", "V", "E", "N", "T">>,
    source |-> <<"t", "e", "s", "t">>, region |-> <<"U", "S", "A">>]}

\* The search of Rusprofile: the request fails; no company-item; a
\* company-item with its elements; one whose company-inn has 11 digits; one
\* without company-inn.
RusprofileSearchResponses ==
  {[ok |-> FALSE, items |-> <<>>],
   [ok |-> TRUE, items |-> <<>>],
   [ok |-> TRUE,
    items |-> <<[name |-> TextRn, inn |-> TextInn10, ogrn |-> TextOgrn,
                 region |-> TextMoscow, status |-> TextActive]>>],
   [ok |-> TRUE, items |-> <<[name |-> TextRn, inn |-> TextInn11]>>],
   [ok |-> TRUE, items |-> <<[name |-> TextRn]>>]}

\* The page of a company on Rusprofile: the request fails; a page with none
\* of the elements; a page with all of them.
RusprofileDetailsResponses ==
  {[ok |-> FALSE, page |-> EmptyDict],
   [ok |-> TRUE, page |-> EmptyDict],
   [ok |-> TRUE,
    page |-> [revenue |-> TextRev, report_year |-> TextYear, okved |-> TextOkved,
              employees |-> TextEmp, site |-> TextSite, phone |-> TextPhone]]}

\* The search of list-org: the request fails; an empty answer; no result; a
\* result with its fields; one whose inn has 3 digits; one without inn.
ListOrgSearchResponses ==
  {[ok |-> FALSE, json |-> EmptyDict],
   [ok |-> TRUE, json |-> EmptyDict],
   [ok |-> TRUE, json |-> [result |-> <<>>]],
   [ok |-> TRUE,
    json |-> [result |-> <<[inn |-> TextLinn, name |-> TextRn,
                            region |-> TextMoscow, okved |-> TextLokved]>>]],
   [ok |-> TRUE,
    json |-> [result |-> <<[inn |-> <<"1", "2", "3">>, name |-> TextRn]>>]],
   [ok |-> TRUE, json |-> [result |-> <<[name |-> TextRn]>>]]}

\* The company of list-org: the request fails; an answer without reports; an
\* answer with a report, the employees and the site.
ListOrgFinancialsResponses ==
  {[ok |-> FALSE, json |-> EmptyDict],
   [ok |-> TRUE, json |-> EmptyDict],
   [ok |-> TRUE,
    json |-> [finance |-> <<[revenue |-> TextLrev, year |-> 2022]>>,
              employees |-> <<"2", "5">>, website |-> TextSite]]}

InitEnrich ==
  /\ pc \in {"rusprofile", "listorg"}
  /\ \E n \in 0..MaxEnrich : companies \in [1..n -> EnrichInputs]
  /\ arg = 0
  /\ ret = <<>>
  /\ df = EmptyFrame
  /\ prev = EmptyFrame
  /\ df_export = NotWritten

\* RusprofileEnricher.enrich_companies: one turn of the loop.
RusprofileEnrichCompany ==
  /\ pc = "rusprofile"
  /\ arg < Len(companies)
  /\ \E search \in RusprofileSearchResponses,
        details \in RusprofileDetailsResponses :
       ret' = EnrichOne(ret, companies[arg + 1],
                        rusprofile_search_company(search),
                        rusprofile_get_company_details(details))
  /\ arg' = arg + 1
  /\ UNCHANGED <<pc, companies, df, prev, df_export>>

\* RusprofileEnricher.enrich_companies: the list saved and returned.
RusprofileReturn ==
  /\ pc = "rusprofile"
  /\ arg = Len(companies)
  /\ pc' = "enriched"
  /\ UNCHANGED <<companies, df, prev, df_export, arg, ret>>

\* ListOrgEnricher.enrich_companies: one turn of the loop.
ListOrgEnrichCompany ==
  /\ pc = "listorg"
  /\ arg < Len(companies)
  /\ \E search \in ListOrgSearchResponses,
        financials \in ListOrgFinancialsResponses :
       ret' = EnrichOne(ret, companies[arg + 1],
                        listorg_search_company(search),
                        listorg_get_financials(financials))
  /\ arg' = arg + 1
  /\ UNCHANGED <<pc, companies, df, prev, df_export>>

\* ListOrgEnricher.enrich_companies: the list saved and returned.
ListOrgReturn ==
  /\ pc = "listorg"
  /\ arg = Len(companies)
  /\ pc' = "enriched"
  /\ UNCHANGED <<companies, df, prev, df_export, arg, ret>>

NextEnrich ==
  \/ RusprofileEnrichCompany
  \/ RusprofileReturn
  \/ ListOrgEnrichCompany
  \/ ListOrgReturn

SpecEnrich == InitEnrich /\ [][NextEnrich]_vars

-----------------------------------------------------------------------------
(* The four passes, in every order, on tables that lack some of the columns *)
(* region, revenue, segment_tag and status: at most MaxPassRows rows, one   *)
(* that every pass keeps and two that every pass removes when it has its    *)
(* column, cut down to the column name and the columns the table has.       *)

ColumnRows ==
  {[name |-> TextCa] @@ PassRow(RegionMoscow, MIN_REVENUE, SegmentBTL, StatusActive),
   [name |-> TextCb] @@ PassRow(RegionUSA, MIN_REVENUE - 1, NaN, StatusBankrupt),
   [name |-> TextRn] @@ PassRow(RegionUSA, 0, SegmentLower, StatusBankrupt)}

InitColumns ==
  /\ pc = "passes"
  /\ \E n \in 0..MaxPassRows,
        present \in SUBSET {"region", "revenue", "segment_tag", "status"} :
       \E rows \in [1..n -> ColumnRows] :
         df = [columns |-> present \cup {"name"},
               rows |-> [i \in 1..n |->
                           [c \in present \cup {"name"} |-> rows[i][c]]]]
  /\ ret = df
  /\ prev = df
  /\ arg = <<>>
  /\ companies = <<>>
  /\ df_export = NotWritten

SpecColumns == InitColumns /\ [][NextPasses]_vars

-----------------------------------------------------------------------------
(* Properties of normalize_revenue and clean_inn.                          *)

\* The power of ten a magnitude keyword stands for, in any letter case.
KeywordPower(kw) ==
  IF Lower(kw) \in {KwMlrd, KwBillion} THEN 9
  ELSE IF Lower(kw) \in {KwMln, KwMillion} THEN 6
  ELSE IF Lower(kw) \in {KwTys, KwThousand} THEN 3
  ELSE 0

MagnitudeKeywords == {kw \in RevenueKeywords : KeywordPower(kw) > 0}

\* The amount n * 10^k truncated to an integer, n written with an optional
\* decimal point and thousands separators.
ExactAmount(n, k) ==
  LET plain == RemoveChar(n, ",")
  IN  NatDivPow10(NatMulPow10(DigitsToNat(SelectSeq(plain, IsDigit)), k),
                  FractionDigits(plain)).q

Text200to500mln == <<"2", "0", "0", "-", "5", "0", "0", " ">> \o KwMln

\* C4: for a range "<a>-<b> <magnitude keyword>" (hyphen or en dash) the
\* result of normalize_revenue is a times the magnitude of the keyword found
\* in the whole original text; normalize_revenue("200-500 mln") = 200000000.
C4_RangeTakesMagnitudeOfWholeText ==
  pc = "revenue_done" =>
    /\ \A a \in RevenueAmounts \ {<<>>}, r \in RevenueRangeEnds \ {<<>>},
          sp \in RevenueSpaces, kw \in MagnitudeKeywords :
         arg = a \o r \o sp \o kw => ret = ExactAmount(a, KeywordPower(kw))
    /\ arg = Text200to500mln => ret = NatFromInt(200000000)

\* C5: for "[ot] n [keyword]" without a range the result is n * 1e9, n * 1e6,
\* n * 1e3 or n, by the keyword in any letter case, truncated to an integer.
C5_AmountTimesMagnitude ==
  pc = "revenue_done" =>
    \A p \in RevenuePrefixes, n \in RevenueAmounts \ {<<>>},
       sp \in RevenueSpaces, kw \in RevenueKeywords :
      arg = p \o n \o sp \o kw => ret = ExactAmount(n, KeywordPower(kw))

\* The digits of a text, in order.
RECURSIVE DigitsOf(_)
DigitsOf(s) ==
  IF s = <<>> THEN <<>>
  ELSE (IF IsDigit(Head(s)) THEN <<Head(s)>> ELSE <<>>) \o DigitsOf(Tail(s))

\* C6: clean_inn(x) is the digits of x in order when x has 10 or 12 digits
\* and the empty text for any other number of digits, and cleaning the result
\* again gives the same result.
C6_CleanInnIdempotent ==
  /\ pc \in {"inn_cleaned", "inn_recleaned"} =>
       \/ ret = <<>>
       \/ Len(ret) \in {10, 12} /\ \A i \in 1..Len(ret) : IsDigit(ret[i])
  /\ pc = "inn_cleaned" =>
       ret = IF Len(DigitsOf(arg)) \in {10, 12} THEN DigitsOf(arg) ELSE <<>>
  /\ pc = "inn_recleaned" => ret = arg

\* A text of 12 digits and a separator was cleaned to its 12 digits, and
\* cleaning those again returned them.
C6_Witness ==
  /\ pc = "inn_recleaned"
  /\ Len(ret) = 12
  /\ ret = arg

-----------------------------------------------------------------------------
(* Properties of deduplicate: prev is the table given to it, df the table   *)
(* it returned.                                                             *)

Deduplicated == pc = "filter_country"

\* The identifiers and the normalized names of the rows without identifier.
InnsOf(rows) == {rows[i]["inn"] : i \in {k \in 1..Len(rows) : WithInn(rows[k])}}

NamesOf(rows) ==
  {NameNormalized(rows[i]) : i \in {k \in 1..Len(rows) : NoInn(rows[k])}}

RowSet(rows) == {rows[i] : i \in 1..Len(rows)}

\* C1: the output of deduplicate has exactly one row for each non-empty
\* identifier of the input and exactly one row without identifier for each
\* normalized name of the input rows without identifier, and no other row.
C1_OneRecordPerIdentityKey ==
  Deduplicated =>
    /\ RowSet(df.rows) \subseteq RowSet(prev.rows)
    /\ \A k \in InnsOf(prev.rows) :
         Cardinality({j \in 1..Len(df.rows) : df.rows[j]["inn"] = k}) = 1
    /\ \A n \in NamesOf(prev.rows) :
         Cardinality({j \in 1..Len(df.rows) :
                        NoInn(df.rows[j]) /\ NameNormalized(df.rows[j]) = n}) = 1

\* Three rows went in, two of them with one identifier and names that differ;
\* one row with that identifier came out.
C1_Witness ==
  /\ Deduplicated
  /\ Len(prev.rows) = MaxTable
  /\ \E i, j \in 1..Len(prev.rows) :
       /\ i < j
       /\ WithInn(prev.rows[i])
       /\ prev.rows[i]["inn"] = prev.rows[j]["inn"]
       /\ prev.rows[i]["name"] /= prev.rows[j]["name"]
  /\ Len(df.rows) < Len(prev.rows)

\* C2: a row of the output with an identifier is a row of the input whose
\* revenue is the largest among the input rows of that identifier and whose
\* revenue_year is the largest among those of that revenue, in whatever order
\* the input rows are.
C2_SurvivorHasMaxRevenueThenYear ==
  Deduplicated =>
    \A j \in 1..Len(df.rows) :
      WithInn(df.rows[j]) =>
        /\ df.rows[j] \in RowSet(prev.rows)
        /\ \A i \in 1..Len(prev.rows) :
             prev.rows[i]["inn"] = df.rows[j]["inn"] =>
               /\ prev.rows[i]["revenue"] <= df.rows[j]["revenue"]
               /\ prev.rows[i]["revenue"] = df.rows[j]["revenue"] =>
                    prev.rows[i]["revenue_year"] <= df.rows[j]["revenue_year"]

\* Of two input rows with one identifier the later one had the higher revenue:
\* it is in the output and the earlier one is not.
C2_Witness ==
  /\ Deduplicated
  /\ \E i, j \in 1..Len(prev.rows) :
       /\ i < j
       /\ WithInn(prev.rows[i])
       /\ prev.rows[i]["inn"] = prev.rows[j]["inn"]
       /\ prev.rows[i]["revenue"] < prev.rows[j]["revenue"]
       /\ prev.rows[j] \in RowSet(df.rows)
       /\ prev.rows[i] \notin RowSet(df.rows)

\* The first input row without identifier whose normalized name is n.
FirstOfName(rows, n) ==
  rows[CHOOSE i \in 1..Len(rows) :
         /\ NoInn(rows[i]) /\ NameNormalized(rows[i]) = n
         /\ \A k \in 1..(i - 1) : ~(NoInn(rows[k]) /\ NameNormalized(rows[k]) = n)]

\* C3: a row of the output without identifier is the first of the input rows
\* without identifier that have its normalized name, whatever the revenues of
\* the later ones.
C3_FirstSeenNameSurvives ==
  Deduplicated =>
    \A j \in 1..Len(df.rows) :
      NoInn(df.rows[j]) =>
        df.rows[j] = FirstOfName(prev.rows, NameNormalized(df.rows[j]))

\* Of two input rows without identifier and with one normalized name the later
\* one had the higher revenue: the earlier one is in the output, the later one
\* is not.
C3_Witness ==
  /\ Deduplicated
  /\ \E i, j \in 1..Len(prev.rows) :
       /\ i < j
       /\ NoInn(prev.rows[i]) /\ NoInn(prev.rows[j])
       /\ NameNormalized(prev.rows[i]) = NameNormalized(prev.rows[j])
       /\ prev.rows[i]["revenue"] < prev.rows[j]["revenue"]
       /\ prev.rows[i] \in RowSet(df.rows)
       /\ prev.rows[j] \notin RowSet(df.rows)

-----------------------------------------------------------------------------
(* Properties of the cleaning: companies is the batch given to              *)
(* clean_companies, df the table of the stage that ran last.                *)

\* The mapping has a name that is not empty after the whitespace is normalized.
IsNamed(record) == "name" \in DOMAIN record /\ clean_text(record["name"]) /= <<>>

\* The mappings of the batch with such a name, in input order.
Named(records) == Masked(records, [i \in 1..Len(records) |-> IsNamed(records[i])])

HasDigit(text) == \E i \in 1..Len(text) : IsDigit(text[i])

\* C7: when the batch has records with a non-empty name, clean_companies
\* returns, whatever their inn and revenue; its table has these records in
\* order, the inn empty when the text has neither 10 nor 12 digits, the revenue
\* a natural number that is 0 when the text is empty or has no digit.
C7_MalformedFieldNeverAborts ==
  LET named == Named(companies)
  IN  named /= <<>> =>
        /\ pc /= "raised"
        /\ pc = "ensure" =>
             /\ Len(df.rows) = Len(named)
             /\ \A i \in 1..Len(df.rows) :
                  /\ df.rows[i]["name"] = clean_text(named[i]["name"])
                  /\ "inn" \in DOMAIN named[i] =>
                       (Len(DigitsOf(named[i]["inn"])) \notin {10, 12} =>
                          df.rows[i]["inn"] = <<>>)
                  /\ "revenue" \in DOMAIN named[i] =>
                       /\ df.rows[i]["revenue"] \in Nat
                       /\ ~HasDigit(named[i]["revenue"]) => df.rows[i]["revenue"] = 0

\* The default the specification documents for a required column.
DocumentedDefault(col) ==
  IF col = "revenue" THEN 0 ELSE IF col = "revenue_year" THEN 2023 ELSE <<>>

\* C8: when a required column is absent from every record of the batch (the
\* empty batch included), clean_companies and ensure_required_columns return
\* and the column holds its default in every row.
C8_MissingColumnNeverFatal ==
  \A c \in {"inn", "name", "revenue_year", "revenue", "segment_tag", "source"} :
    (\A i \in 1..Len(companies) : c \notin DOMAIN companies[i]) =>
      /\ pc /= "raised"
      /\ pc = "deduplicate" =>
           /\ c \in df.columns
           /\ \A j \in 1..Len(df.rows) : df.rows[j][c] = DocumentedDefault(c)

\* C9: after clean_companies and ensure_required_columns every row has a
\* value that is not NaN in each required column, the default in the columns
\* whose key its mapping omitted, also when other mappings had the key.
C9_RequiredColumnsPopulated ==
  pc = "deduplicate" =>
    LET named == Named(companies)
    IN  /\ {"inn", "name", "revenue_year", "revenue", "segment_tag", "source"}
             \subseteq df.columns
        /\ Len(df.rows) = Len(named)
        /\ \A j \in 1..Len(df.rows) :
             /\ \A c \in {"inn", "name", "segment_tag", "source"} :
                  df.rows[j][c] /= NaN
             /\ \A c \in {"inn", "segment_tag", "source"} :
                  c \notin DOMAIN named[j] => df.rows[j][c] = <<>>
             /\ "revenue" \notin DOMAIN named[j] => df.rows[j]["revenue"] = 0
             /\ ("revenue_year" \notin DOMAIN named[j]
                   \/ ~IsNumeric(named[j]["revenue_year"]))
                  => df.rows[j]["revenue_year"] = 2023

\* No row of the table has an empty or missing name.
NoEmptyName(rows) ==
  \A i \in 1..Len(rows) : rows[i]["name"] /= <<>> /\ rows[i]["name"] /= NaN

\* C10: clean_companies returns the records of the batch whose name is present
\* and not empty after the whitespace is normalized, in input order, and no
\* others; no row has an empty name after the cleaning, the deduplication, the
\* validation, or in the export.
C10_ExactlyNamelessRemoved ==
  /\ pc /= "raised"
  /\ pc = "ensure" =>
       /\ Len(df.rows) = Len(Named(companies))
       /\ \A i \in 1..Len(df.rows) :
            df.rows[i]["name"] = clean_text(Named(companies)[i]["name"])
  /\ pc \notin {"clean", "raised"} => NoEmptyName(df.rows)
  /\ df_export.written => NoEmptyName(df_export.rows)

\* What holds of C10: whenever clean_companies returns, its table has exactly
\* the named records in input order, and no later stage has a row with an
\* empty name.
C10_WhenCleaningReturns ==
  /\ pc = "ensure" =>
       /\ Len(df.rows) = Len(Named(companies))
       /\ \A i \in 1..Len(df.rows) :
            df.rows[i]["name"] = clean_text(Named(companies)[i]["name"])
  /\ pc \notin {"clean", "raised"} => NoEmptyName(df.rows)
  /\ df_export.written => NoEmptyName(df_export.rows)

-----------------------------------------------------------------------------
(* Properties of the passes of DataValidator.                               *)

\* The pass called last.
LastPass == IF arg = <<>> THEN "none" ELSE arg[Len(arg)]

\* The row is one of the rows of the table.
InRows(row, rows) == \E i \in 1..Len(rows) : rows[i] = row

\* The revenue of the row reaches the threshold.
KeepsRevenue(row) == ~(row["revenue"] < MIN_REVENUE)

\* C11: the revenue pass keeps a record if and only if its revenue is at least
\* min_revenue: a revenue of exactly min_revenue is kept, one of
\* min_revenue - 1 is removed, and a revenue of 0 (an absent revenue after the
\* normalization) is removed whenever min_revenue is positive.
C11_RevenueThresholdInclusive ==
  LastPass = "revenue" =>
    /\ df.columns = prev.columns
    /\ df.rows = SelectSeq(prev.rows, KeepsRevenue)
    /\ \A i \in 1..Len(prev.rows) :
         /\ prev.rows[i]["revenue"] = MIN_REVENUE => InRows(prev.rows[i], df.rows)
         /\ prev.rows[i]["revenue"] = MIN_REVENUE - 1 =>
              ~InRows(prev.rows[i], df.rows)
         /\ (prev.rows[i]["revenue"] = 0 /\ MIN_REVENUE > 0) =>
              ~InRows(prev.rows[i], df.rows)

\* The revenue pass was given a record at the threshold and a record without
\* revenue, and kept the first only.
C11_Witness ==
  /\ LastPass = "revenue"
  /\ Len(prev.rows) = 2
  /\ prev.rows[1]["revenue"] = MIN_REVENUE
  /\ prev.rows[2]["revenue"] = 0
  /\ df.rows = <<prev.rows[1]>>

\* The region of the row is empty or missing, or names Russia.
KeepsGeography(row) ==
  \/ row["region"] = <<>>
  \/ row["region"] = NaN
  \/ LET lowered == Lower(row["region"])
     IN  \E kw \in russian_keywords : Contains(lowered, kw)

\* C12: the geography pass keeps a record if and only if its region is empty
\* or absent, or its lower-cased region contains a keyword of the Russian
\* list; a record with a region that contains none, such as "USA", is removed.
C12_GeographyAdmitsEmptyRegion ==
  LastPass = "country" =>
    /\ df.columns = prev.columns
    /\ df.rows = SelectSeq(prev.rows, KeepsGeography)
    /\ \A i \in 1..Len(prev.rows) :
         prev.rows[i]["region"] = RegionUSA => ~InRows(prev.rows[i], df.rows)

\* The geography pass was given a record without region and a record of the
\* USA, and kept the first only.
C12_Witness ==
  /\ LastPass = "country"
  /\ Len(prev.rows) = 2
  /\ prev.rows[1]["region"] \in {<<>>, NaN}
  /\ prev.rows[2]["region"] = RegionUSA
  /\ df.rows = <<prev.rows[1]>>

\* The five segment tags the claim names.
ClaimedSegments ==
  {<<"B", "T", "L">>, <<"E", "V", "E", "N", "T">>,
   <<"S", "O", "U", "V", "E", "N", "I", "R">>,
   <<"F", "U", "L", "L", "_", "C", "Y", "C", "L", "E">>,
   <<"C", "O", "M", "M", "_", "G", "R", "O", "U", "P">>}

\* The segment tag of the row is one of the five.
KeepsSegment(row) == \E tag \in ClaimedSegments : row["segment_tag"] = tag

\* C13: the segment pass keeps a record if and only if its segment_tag is
\* exactly one of BTL, EVENT, SOUVENIR, FULL_CYCLE, COMM_GROUP; a record with
\* an empty, absent or any other tag is removed.
C13_SegmentExactlyOneOfFive ==
  LastPass = "segment" =>
    /\ df.columns = prev.columns
    /\ df.rows = SelectSeq(prev.rows, KeepsSegment)
    /\ \A i \in 1..Len(prev.rows) :
         prev.rows[i]["segment_tag"] \in {<<>>, NaN, SegmentLower} =>
           ~InRows(prev.rows[i], df.rows)

\* The segment pass was given a record tagged BTL and a record without tag,
\* and kept the first only.
C13_Witness ==
  /\ LastPass = "segment"
  /\ Len(prev.rows) = 2
  /\ prev.rows[1]["segment_tag"] = SegmentBTL
  /\ prev.rows[2]["segment_tag"] \in {<<>>, NaN}
  /\ df.rows = <<prev.rows[1]>>

\* The status of the row is not empty and names a liquidation, a bankruptcy
\* or a reorganization.
RemovedAsInactive(row) ==
  /\ row["status"] /= <<>>
  /\ row["status"] /= NaN
  /\ LET lowered == Lower(row["status"])
     IN  \E kw \in inactive_keywords : Contains(lowered, kw)

KeepsActivity(row) == ~RemovedAsInactive(row)

\* C14: the activity pass removes a record if and only if its status is not
\* empty and, lower-cased, contains a keyword of liquidation, bankruptcy or
\* reorganization; a record with an empty or absent status is kept, so a
\* record with an empty region and an empty status survives the geography
\* pass and the activity pass.
C14_ActivityAdmitsEmptyStatus ==
  /\ LastPass = "active" =>
       /\ df.columns = prev.columns
       /\ df.rows = SelectSeq(prev.rows, KeepsActivity)
       /\ \A i \in 1..Len(prev.rows) :
            prev.rows[i]["status"] \in {<<>>, NaN} =>
              InRows(prev.rows[i], df.rows)
  /\ (\A k \in 1..Len(arg) : arg[k] \in {"country", "active"}) =>
       \A i \in 1..Len(ret.rows) :
         (ret.rows[i]["region"] = <<>> /\ ret.rows[i]["status"] = <<>>) =>
           InRows(ret.rows[i], df.rows)

\* The geography pass and then the activity pass were given a record in
\* bankruptcy and a record with neither region nor status, and kept the
\* second only.
C14_Witness ==
  /\ arg = <<"country", "active">>
  /\ Len(ret.rows) = 2
  /\ ret.rows[1]["status"] = StatusBankrupt
  /\ ret.rows[2]["region"] = <<>>
  /\ ret.rows[2]["status"] = <<>>
  /\ df.rows = <<ret.rows[2]>>

\* The row satisfies the predicate of every pass called so far.
KeepsAllCalled(row) ==
  /\ Called("country") => KeepsGeography(row)
  /\ Called("revenue") => KeepsRevenue(row)
  /\ Called("segment") => KeepsSegment(row)
  /\ Called("active") => KeepsActivity(row)

\* C15: the four passes commute: in whichever order they are called, the
\* surviving records are the records of the first table that satisfy the
\* predicates of the passes called, all four once every pass was called; what
\* the revenue pass keeps does not depend on the geography pass having been
\* called before it.
C15_PassesCommute ==
  /\ df.columns = ret.columns
  /\ df.rows = SelectSeq(ret.rows, KeepsAllCalled)
  /\ Len(arg) = 4 =>
       df.rows = SelectSeq(ret.rows,
                   LAMBDA row : /\ KeepsGeography(row) /\ KeepsRevenue(row)
                                /\ KeepsSegment(row) /\ KeepsActivity(row))

\* The four passes were called in the reverse of the order of validate, on a
\* record that satisfies every predicate and a record that fails the revenue
\* and the segment predicates, and kept the first only.
C15_Witness ==
  /\ arg = <<"active", "segment", "revenue", "country">>
  /\ Len(ret.rows) = 2
  /\ ~KeepsRevenue(ret.rows[2])
  /\ ~KeepsSegment(ret.rows[2])
  /\ KeepsGeography(ret.rows[2])
  /\ df.rows = <<ret.rows[1]>>

-----------------------------------------------------------------------------
(* Properties of check_relevance_by_okved and of the export.                *)

\* The six codes the claim names.
ClaimedCodes ==
  {<<"7", "3", ".", "1", "1">>, <<"7", "3", ".", "1", "2">>,
   <<"8", "2", ".", "3", "0">>, <<"7", "4", ".", "2", "0">>,
   <<"3", "2", ".", "9", "9">>, <<"4", "6", ".", "4", "9">>}

\* The text begins with the code.
BeginsWith(text, code) ==
  /\ Len(text) >= Len(code)
  /\ SubSeq(text, 1, Len(code)) = code

\* The code of the row is not empty and begins with one of the six codes.
HasClaimedCode(row) ==
  /\ row["okved_main"] /= <<>>
  /\ \E code \in ClaimedCodes : BeginsWith(row["okved_main"], code)

\* check_relevance_by_okved has returned: its argument is prev, its result df.
OkvedChecked == pc = "export"

\* The result has the rows of the argument, with every field of the argument
\* as it was.
OnlyAnnotates ==
  /\ Len(df.rows) = Len(prev.rows)
  /\ prev.columns \subseteq df.columns
  /\ df.columns \subseteq prev.columns \cup {"okved_relevant"}
  /\ \A i \in 1..Len(prev.rows) :
       \A c \in prev.columns : df.rows[i][c] = prev.rows[i][c]

\* C16, as the claim states it: check_relevance_by_okved removes no record
\* and changes no other field, and sets okved_relevant of every record to
\* true if its okved_main is not empty and begins with one of the six codes,
\* and to false otherwise.
C16_EveryRecordAnnotated ==
  OkvedChecked =>
    /\ OnlyAnnotates
    /\ "okved_relevant" \in df.columns
    /\ \A i \in 1..Len(df.rows) :
         df.rows[i]["okved_relevant"] =
           ("okved_main" \in prev.columns /\ HasClaimedCode(prev.rows[i]))

\* C16, as it holds: check_relevance_by_okved removes no record and changes
\* no other field; on a table with the column okved_main it sets
\* okved_relevant of every record to true if its okved_main is not empty and
\* begins with one of the six codes, and to false otherwise; a table without
\* the column okved_main is returned as it is, without okved_relevant.
C16_AnnotatedWhenColumnPresent ==
  OkvedChecked =>
    /\ OnlyAnnotates
    /\ "okved_main" \in prev.columns =>
         /\ "okved_relevant" \in df.columns
         /\ \A i \in 1..Len(df.rows) :
              df.rows[i]["okved_relevant"] = HasClaimedCode(prev.rows[i])
    /\ "okved_main" \notin prev.columns => df = prev

\* check_relevance_by_okved has returned a table of two records, one marked
\* for a code that is longer than the code of the list it begins with, one
\* not marked for a code that has a code of the list inside it.
C16_Witness ==
  /\ OkvedChecked
  /\ Len(df.rows) = 2
  /\ "okved_relevant" \in df.columns
  /\ df.rows[1]["okved_relevant"]
  /\ df.rows[1]["okved_main"] \notin ClaimedCodes
  /\ ~df.rows[2]["okved_relevant"]
  /\ df.rows[2]["okved_main"] /= <<>>

\* The row of the validated table as the export has it: the columns of the
\* header only.
Exported(row) ==
  [c \in {df_export.header[k] : k \in 1..Len(df_export.header)} |-> row[c]]

\* The number of times the row is in the export.
TimesExported(row) ==
  Cardinality({i \in 1..Len(df_export.rows) : df_export.rows[i] = row})

\* The number of times the row, as the export has it, is in the validated
\* table.
TimesValidated(row) ==
  Cardinality({i \in 1..Len(df.rows) : Exported(df.rows[i]) = row})

\* C17: the export never deletes or adds a record: the exported rows are a
\* permutation of the rows of the validated table, ordered so that revenue
\* does not increase from the first row to the last.
C17_ExportIsSortedPermutation ==
  df_export.written =>
    /\ Len(df_export.rows) = Len(df.rows)
    /\ \A i \in 1..Len(df_export.rows) :
         TimesExported(df_export.rows[i]) = TimesValidated(df_export.rows[i])
    /\ \A i \in 1..Len(df.rows) : TimesExported(Exported(df.rows[i])) >= 1
    /\ \A i, j \in 1..Len(df_export.rows) :
         i < j => df_export.rows[i]["revenue"] >= df_export.rows[j]["revenue"]

\* Two records were exported, the second of the validated table first, for
\* its greater revenue.
C17_Witness ==
  /\ df_export.written
  /\ Len(df.rows) = 2
  /\ df.rows[1]["revenue"] < df.rows[2]["revenue"]
  /\ df_export.rows[1]["inn"] = df.rows[2]["inn"]
  /\ df_export.rows[2]["inn"] = df.rows[1]["inn"]

\* The fixed list the claim names.
ClaimedColumns ==
  <<"inn", "name", "revenue_year", "revenue", "segment_tag", "source",
    "okved_main", "employees", "site", "description", "region", "contacts",
    "rating_ref", "okved_relevant">>

\* The place of the column in the fixed list, 0 for a column outside it.
PlaceInList(col) ==
  IF \E k \in 1..Len(ClaimedColumns) : ClaimedColumns[k] = col
  THEN CHOOSE k \in 1..Len(ClaimedColumns) : ClaimedColumns[k] = col
  ELSE 0

\* C18: the exported columns are exactly the columns of the fixed list that
\* the validated table has, in the order of the list: a column outside the
\* list is never exported, and a column of the list that the table has not is
\* never made.
C18_ExportedColumnsAreListedAndPresent ==
  df_export.written =>
    /\ \A k \in 1..Len(df_export.header) :
         /\ PlaceInList(df_export.header[k]) > 0
         /\ df_export.header[k] \in df.columns
    /\ \A c \in df.columns :
         PlaceInList(c) > 0 =>
           \E k \in 1..Len(df_export.header) : df_export.header[k] = c
    /\ \A k, l \in 1..Len(df_export.header) :
         k < l =>
           PlaceInList(df_export.header[k]) < PlaceInList(df_export.header[l])
    /\ \A i \in 1..Len(df_export.rows) :
         DOMAIN df_export.rows[i] =
           {df_export.header[k] : k \in 1..Len(df_export.header)}

\* A table with the column status, which is outside the list, and without
\* the columns okved_main and okved_relevant, which are in it, was exported
\* with the six columns it has of the list.
C18_Witness ==
  /\ df_export.written
  /\ Len(df_export.rows) = 2
  /\ "status" \in df.columns
  /\ "okved_main" \notin df.columns
  /\ df_export.header =
       <<"inn", "name", "revenue_year", "revenue", "segment_tag", "source">>

-----------------------------------------------------------------------------
(* Properties of main.                                                      *)

\* The stage of main a step of the run belongs to: 1 the Normalizer, 2 the
\* Resolver, 3 the Validator, 4 the export, 5 the end of main; 0 when an
\* exception has left main.
StageNumber(step) ==
  CASE step \in {"clean", "ensure"} -> 1
    [] step = "deduplicate" -> 2
    [] step \in {"filter_country", "filter_revenue", "validate_segment",
                 "filter_active", "check_okved"} -> 3
    [] step = "export" -> 4
    [] step = "done" -> 5
    [] OTHER -> 0

\* C19: in every run of main the stages run in the order Normalizer,
\* Resolver, Validator, export, none left out and none run again; the export
\* is written by the export stage only, after every earlier stage has
\* returned; when a stage raises, the exception leaves main, nothing runs
\* after it and no export is written in that run.
C19_StagesInOrderNoExportAfterRaise ==
  /\ [](df_export.written => pc = "done")
  /\ [](pc = "raised" => ~df_export.written)
  /\ [][/\ pc /= "raised"
        /\ \/ pc' = "raised"
           \/ StageNumber(pc') = StageNumber(pc)
           \/ StageNumber(pc') = StageNumber(pc) + 1
        /\ df_export' /= df_export =>
             /\ StageNumber(pc) = 4
             /\ StageNumber(pc') = 5
             /\ ~df_export.written]_vars

\* A run came to its end through every stage and wrote an export with a
\* record in it.
C19_Witness ==
  /\ pc = "done"
  /\ df_export.written
  /\ Len(df_export.rows) >= 1
  /\ Len(companies) = MaxCompanies

\* The identifier, the name and the revenue of the rows of the table.
RecordsOf(rows) ==
  {<<rows[i]["inn"], rows[i]["name"], rows[i]["revenue"]>> : i \in 1..Len(rows)}

\* The three records the claim names for the Resolver.
ScenarioResolved ==
  {<<<<"1", "2", "3", "4", "5", "6", "7", "8", "9", "0">>,
     <<"C", "o", "m", "p", "a", "n", "y", " ", "A">>, 2000000>>,
   <<<<>>, <<"C", "o", "m", "p", "a", "n", "y", " ", "B">>, 500000>>,
   <<<<"9", "8", "7", "6", "5", "4", "3", "2", "1", "0">>,
     <<"C", "o", "m", "p", "a", "n", "y", " ", "C">>, 300000000>>}

\* The record the claim names for the Validator.
ScenarioValidated ==
  {<<<<"9", "8", "7", "6", "5", "4", "3", "2", "1", "0">>,
     <<"C", "o", "m", "p", "a", "n", "y", " ", "C">>, 300000000>>}

-----------------------------------------------------------------------------
(* Properties of the enrichers.                                             *)

\* C21: a lookup of an enricher that fails (a search without result, a
\* request that fails) does not raise out of enrich_companies and gives, for
\* that company, a record with fewer fields: every company of the input is in
\* the enriched list, the company taken k-th is its k-th record and has at
\* least the fields the input gave it.
C21_EveryCompanyInEnrichedBatch ==
  /\ pc \in {"rusprofile", "listorg", "enriched"}
  /\ Len(ret) = arg
  /\ \A i \in 1..Len(ret) : DOMAIN companies[i] \subseteq DOMAIN ret[i]

-----------------------------------------------------------------------------
(* Properties of the passes on tables that lack a column.                   *)

\* The column the pass reads.
ColumnOfPass(pass) ==
  CASE pass = "country" -> "region"
    [] pass = "revenue" -> "revenue"
    [] pass = "segment" -> "segment_tag"
    [] pass = "active" -> "status"

\* C22: a pass of the Validator whose column the table has not is skipped:
\* _filter_by_country without region, _filter_by_revenue without revenue,
\* _validate_segment without segment_tag and _filter_active_companies without
\* status return the table unchanged, so the pass admits every record, the
\* revenue and the segment passes too.
C22_PassWithoutColumnSkipped ==
  (arg /= <<>> /\ ColumnOfPass(LastPass) \notin prev.columns) =>
    /\ df = prev
    /\ \A i \in 1..Len(prev.rows) : InRows(prev.rows[i], df.rows)

\* The revenue pass and the segment pass were called on a table of two
\* records that has neither of their columns, and returned both records.
C22_Witness ==
  /\ Len(arg) = 2
  /\ \A k \in 1..2 : arg[k] \in {"revenue", "segment"}
  /\ "revenue" \notin ret.columns
  /\ "segment_tag" \notin ret.columns
  /\ Len(ret.rows) = 2
  /\ df = ret

(***************************************************************************)
(* Properties of deduplicate across its two tiers of identity.             *)

\* The tier of a record and its key in each tier, read from the record.
HasIdentifier(row) == row["inn"] /= <<>> /\ row["inn"] /= NaN

NormalName(row) == Strip(Lower(row["name"]))

SameTierAndKey(a, b) ==
  IF HasIdentifier(a) THEN HasIdentifier(b) /\ a["inn"] = b["inn"]
  ELSE ~HasIdentifier(b) /\ NormalName(a) = NormalName(b)

\* C23: deduplicate never merges across the two tiers. Whatever records with
\* an identifier carry the same normalized name, a record without identifier
\* still has a record without identifier of its normalized name in the
\* output; whatever names the records carry, a record with an identifier
\* still has a record of its identifier in the output; and an input record
\* that is not in the output has another input record of its own tier and
\* key.
C23_NoMergeAcrossTiers ==
  Deduplicated =>
    /\ \A i \in 1..Len(prev.rows) :
         \E j \in 1..Len(df.rows) : SameTierAndKey(prev.rows[i], df.rows[j])
    /\ \A i \in 1..Len(prev.rows) :
         ~InRows(prev.rows[i], df.rows) =>
           \E k \in 1..Len(prev.rows) :
             k /= i /\ SameTierAndKey(prev.rows[i], prev.rows[k])

\* A record without identifier and a record with an identifier had the same
\* normalized name, and both are in the output, while a third record was
\* merged away.
C23_Witness ==
  /\ Deduplicated
  /\ Len(df.rows) < Len(prev.rows)
  /\ \E i, j \in 1..Len(prev.rows) :
       /\ ~HasIdentifier(prev.rows[i])
       /\ HasIdentifier(prev.rows[j])
       /\ NormalName(prev.rows[i]) = NormalName(prev.rows[j])
       /\ InRows(prev.rows[i], df.rows)
       /\ InRows(prev.rows[j], df.rows)

\* The identifiers of the records that have one, and the normalized names of
\* those that have none.
IdentifiersIn(rows) ==
  {rows[i]["inn"] : i \in {k \in 1..Len(rows) : HasIdentifier(rows[k])}}

NormalNamesIn(rows) ==
  {NormalName(rows[i]) : i \in {k \in 1..Len(rows) : ~HasIdentifier(rows[k])}}

IsSubSequenceOf(rows, of) ==
  \E f \in [1..Len(rows) -> 1..Len(of)] :
    /\ \A i \in 1..Len(rows) : rows[i] = of[f[i]]
    /\ \A i, j \in 1..Len(rows) : i < j => f[i] < f[j]

\* C25: each pass of the Validator returns a sub-sequence of the table it
\* was given, and so does any run of passes, validate among them, of the
\* original table: the columns are those of the input, every output record
\* is an input record with every field unchanged, the records keep their
\* relative order, none is added, and the number of records never grows
\* from one pass to the next.
C25_PassesReturnSubSequence ==
  arg /= <<>> =>
    /\ df.columns = prev.columns
    /\ prev.columns = ret.columns
    /\ IsSubSequenceOf(df.rows, prev.rows)
    /\ IsSubSequenceOf(df.rows, ret.rows)
    /\ Len(df.rows) <= Len(prev.rows)
    /\ Len(prev.rows) <= Len(ret.rows)

\* validate, the four passes called in its order, on a table of two
\* different records that every pass admits: both came out, in their order.
C25_Witness ==
  /\ arg = <<"country", "revenue", "segment", "active">>
  /\ Len(ret.rows) = 2
  /\ ret.rows[1] /= ret.rows[2]
  /\ df = ret

=============================================================================
